---- MODULE Spec2Model ----
(***************************************************************************)
(* Membership administration (src/streamlit.py): the SQLite store kept by  *)
(* DatabaseManager, the due-date calculator, the reminder classifier of    *)
(* ReminderScheduler, the phone helpers and the page handlers that call    *)
(* them.                                                                   *)
(*                                                                         *)
(* Representation.  A datetime.date value is its proleptic Gregorian       *)
(* ordinal (date.toordinal()); adding timedelta(days=n) is +n and          *)
(* (a - b).days is a - b.  A DATE column holds the ISO text the sqlite3    *)
(* adapter writes, modelled as the triple <<year, month, day>> and parsed  *)
(* back with strptime.  A phone is a sequence of one-character strings.    *)
(* A member name is the sequence of its byte codes, compared as SQLite's   *)
(* BINARY collation compares it.                                           *)
(***************************************************************************)
EXTENDS Integers, Sequences, FiniteSets, TLC

VARIABLES
    members,          \* rows of table members
    payment_history,  \* rows of table payment_history
    reminder_logs,    \* rows of table reminder_logs
    sqlite_sequence,  \* AUTOINCREMENT counters, one per table
    message_templates,\* rows of table message_templates
    today,            \* datetime.now().date()
    held,             \* per session: the member id its running page read
    conn,             \* per session: the connection of its write in progress
    session_state,    \* per session: st.session_state
    clock,            \* datetime.now(), in seconds
    screen,           \* per session: the URL and the widgets its browser shows
    last              \* the latest call: its name, arguments and result

vars ==
    <<members, payment_history, reminder_logs, sqlite_sequence, message_templates,
      today, held, conn, session_state, clock, screen, last>>

\* what the calls on the committed store and the pure functions leave alone
others == <<conn, session_state, clock, screen>>

store ==
    <<members, payment_history, reminder_logs, sqlite_sequence, message_templates>>

(***************************************************************************)
(* Calendar arithmetic of datetime.date                                    *)
(***************************************************************************)
is_leap(y) == (y % 4 = 0 /\ y % 100 # 0) \/ y % 400 = 0

days_in_month(y, m) ==
    IF m = 2 THEN (IF is_leap(y) THEN 29 ELSE 28)
    ELSE IF m \in {4, 6, 9, 11} THEN 30 ELSE 31

RECURSIVE days_before_month(_, _)
days_before_month(y, m) ==
    IF m = 1 THEN 0 ELSE days_before_month(y, m - 1) + days_in_month(y, m - 1)

days_before_year(y) ==
    ((y - 1) * 365 + (y - 1) \div 4 - (y - 1) \div 100) + (y - 1) \div 400

\* date(y, m, d).toordinal()
ymd2ord(y, m, d) == days_before_year(y) + days_before_month(y, m) + d

\* datetime.strptime(text, '%Y-%m-%d').date() of the ISO text <<y, m, d>>
strptime(text) == ymd2ord(text[1], text[2], text[3])

(***************************************************************************)
(* DatabaseManager.calculate_next_due_date                                 *)
(***************************************************************************)
MembershipTypes == {"Monthly Subscriber", "Quarterly", "Half Yearly", "Annual"}

calculate_next_due_date_AllMonthly(payment_date, membership_type) ==
    strptime(payment_date) + 30

calculate_next_due_date_CalendarMonth(payment_date, membership_type) ==
    IF membership_type = "Quarterly" THEN strptime(payment_date) + 90
    ELSE IF membership_type = "Half Yearly" THEN strptime(payment_date) + 180
    ELSE IF membership_type = "Annual" THEN strptime(payment_date) + 365
    ELSE strptime(payment_date) + days_in_month(payment_date[1], payment_date[2])

calculate_next_due_date(payment_date, membership_type) ==
    IF membership_type = "Monthly Subscriber" THEN strptime(payment_date) + 30
    ELSE IF membership_type = "Quarterly" THEN strptime(payment_date) + 90
    ELSE IF membership_type = "Half Yearly" THEN strptime(payment_date) + 180
    ELSE IF membership_type = "Annual" THEN strptime(payment_date) + 365
    ELSE strptime(payment_date) + 30

(***************************************************************************)
(* Phone helpers                                                           *)
(***************************************************************************)
Digits == {"0", "1", "2", "3", "4", "5", "6", "7", "8", "9"}

\* re.sub(r'\D', '', phone)
digits_only(phone) == SelectSeq(phone, LAMBDA c : c \in Digits)

startswith(s, prefix) ==
    Len(s) >= Len(prefix) /\ SubSeq(s, 1, Len(prefix)) = prefix

format_phone_number_NoCountryCode(phone) ==
    LET d == digits_only(phone) IN
    IF Len(d) >= 10 THEN <<"+">> \o d ELSE d

format_phone_number_AlwaysCountryCode(phone) ==
    LET d == digits_only(phone) IN
    IF Len(d) >= 10 THEN <<"+", "9", "1">> \o d ELSE d

format_phone_number(phone) ==
    LET d == digits_only(phone) IN
    IF startswith(d, <<"9", "1">>) /\ Len(d) = 12 THEN <<"+">> \o d
    ELSE IF Len(d) = 10 THEN <<"+", "9", "1">> \o d
    ELSE IF Len(d) > 10 THEN <<"+">> \o d
    ELSE d

validate_phone_number(phone) ==
    LET d == digits_only(phone) IN
    IF Len(d) = 10 THEN TRUE
    ELSE IF Len(d) = 12 /\ startswith(d, <<"9", "1">>) THEN TRUE
    ELSE IF Len(d) = 13 /\ startswith(phone, <<"+", "9", "1">>) THEN TRUE
    ELSE FALSE

(***************************************************************************)
(* MessageManager.send_whatsapp_url                                        *)
(***************************************************************************)
\* str.replace(old, "") for a one-character old
replace(text, old) == SelectSeq(text, LAMBDA c : c # old)

\* the characters urllib.parse.quote leaves as they are: letters, digits,
\* "_.-~" and the default safe character "/" (those of them the messages use)
QuoteSafe ==
    Digits \cup {"H", "i", "a", "_", ".", "-", "~", "/"}

\* the percent-encoding of one character outside QuoteSafe
percent_encoded(c) ==
    CASE c = " " -> <<"%", "2", "0">>
      [] c = "+" -> <<"%", "2", "B">>
      [] c = "(" -> <<"%", "2", "8">>
      [] c = ")" -> <<"%", "2", "9">>
      [] c = "?" -> <<"%", "3", "F">>
      [] c = "=" -> <<"%", "3", "D">>
      [] c = "{" -> <<"%", "7", "B">>
      [] c = "}" -> <<"%", "7", "D">>

\* urllib.parse.quote(message), line 488
RECURSIVE quote(_)
quote(message) ==
    IF message = <<>> THEN <<>>
    ELSE (IF Head(message) \in QuoteSafe THEN <<Head(message)>>
          ELSE percent_encoded(Head(message))) \o quote(Tail(message))

send_whatsapp_url_KeepPlus(phone, message) ==
    <<"https://wa.me/">> \o replace(replace(phone, " "), "-")
        \o <<"?text=">> \o quote(message)

\* lines 482-490; the two literal parts of the f-string are one element each
send_whatsapp_url(phone, message) ==
    LET formatted_phone == replace(replace(replace(phone, "+"), " "), "-")
        encoded_message == quote(message)
    IN  <<"https://wa.me/">> \o formatted_phone \o <<"?text=">> \o encoded_message

(***************************************************************************)
(* MessageManager.format_message.  A template and a message are sequences  *)
(* of elements: "{" and "}" are the brace characters, every other element  *)
(* is a run of characters without braces (a piece of text, a field name,   *)
(* a rendered value).                                                      *)
(***************************************************************************)
\* date.fromordinal(n) as <<year, month, day>>
ord2ymd(n) ==
    LET y == CHOOSE y \in ((n - 1) \div 366 + 1)..((n - 1) \div 365 + 1) :
                 days_before_year(y) < n /\ n <= days_before_year(y + 1)
        r == n - days_before_year(y)
        m == CHOOSE m \in 1..12 :
                 /\ days_before_month(y, m) < r
                 /\ r <= days_before_month(y, m) + days_in_month(y, m)
    IN  <<y, m, r - days_before_month(y, m)>>

\* the %d and %m fields of strftime: two digits
pad2(k) == IF k < 10 THEN "0" \o ToString(k) ELSE ToString(k)

\* due_date.strftime('%d-%m-%Y'), line 520
strftime(date) ==
    LET t == ord2ymd(date) IN
    pad2(t[3]) \o "-" \o pad2(t[2]) \o "-" \o ToString(t[1])

\* the character of a byte of a stored name (sqlite3 decodes TEXT as UTF-8)
chr(b) ==
    CASE b = 65 -> "A"
      [] b = 66 -> "B"
      [] b = 120 -> "x"
      [] b = 123 -> "{"
      [] b = 125 -> "}"

decode(name) == [i \in DOMAIN name |-> chr(name[i])]

message_due_date_AllMonthly(payment_date, membership_type) == payment_date + 30

\* lines 501-512: the due date format_message computes from a date
message_due_date(payment_date, membership_type) ==
    IF membership_type = "Monthly Subscriber" THEN payment_date + 30
    ELSE IF membership_type = "Quarterly" THEN payment_date + 90
    ELSE IF membership_type = "Half Yearly" THEN payment_date + 180
    ELSE IF membership_type = "Annual" THEN payment_date + 365
    ELSE payment_date + 30

overdue_days_of_Signed(now, due_date) == now - due_date

\* line 515
overdue_days_of(now, due_date) == IF now > due_date THEN now - due_date ELSE 0

message_kwargs_NoCourtName(member_data, now) ==
    LET due_date == message_due_date(member_data.payment_date,
                                     member_data.membership_type)
    IN  [member_name |-> member_data.member_name,
         amount |-> member_data.amount,
         due_date |-> strftime(due_date),
         membership_type |-> member_data.membership_type,
         overdue_days |-> overdue_days_of(now, due_date),
         phone |-> "+91-9876543210"]

\* lines 494-525: the keyword arguments of template.format.  member_data is
\* an entry of get_pending_reminders, whose payment_date is a date and which
\* has every key that format_message reads.
message_kwargs(member_data, now) ==
    LET due_date == message_due_date(member_data.payment_date,
                                     member_data.membership_type)
    IN  [member_name |-> member_data.member_name,
         amount |-> member_data.amount,
         due_date |-> strftime(due_date),
         membership_type |-> member_data.membership_type,
         overdue_days |-> overdue_days_of(now, due_date),
         court_name |-> "KJ Badminton Academy",
         phone |-> "+91-9876543210"]

\* str(value) of each keyword argument, as str.format inserts it: the name
\* character by character, the REAL amount with its fraction, the rest as
\* one element
rendered(kwargs) ==
    [k \in DOMAIN kwargs |->
        CASE k = "member_name" -> decode(kwargs[k])
          [] k = "amount" -> <<ToString(kwargs[k]) \o ".0">>
          [] k = "overdue_days" -> <<ToString(kwargs[k])>>
          [] OTHER -> <<kwargs[k]>>]

\* index of the first "}" of a text, 0 if it has none
closing_brace(text) ==
    IF \E i \in DOMAIN text : text[i] = "}"
    THEN CHOOSE i \in DOMAIN text :
             text[i] = "}" /\ \A j \in 1..(i - 1) : text[j] # "}"
    ELSE 0

\* a piece of output in front of the result for the rest of the template
prepend(piece, r) ==
    IF r.error = "" THEN [error |-> "", text |-> piece \o r.text] ELSE r

str_format_Verbatim(template, values) == [error |-> "", text |-> template]

\* str.format(**values) for replacement fields that are plain names: "{{"
\* and "}}" give one brace, "{name}" gives the value of the name (KeyError
\* if there is none, IndexError for the empty name, which is positional),
\* a brace on its own is a ValueError; the first failure is the one raised.
RECURSIVE str_format(_, _)
str_format(template, values) ==
    IF template = <<>> THEN [error |-> "", text |-> <<>>]
    ELSE LET c == Head(template)
             rest == Tail(template)
         IN  IF c = "{"
             THEN IF rest # <<>> /\ Head(rest) = "{"
                  THEN prepend(<<"{">>, str_format(Tail(rest), values))
                  ELSE LET close == closing_brace(rest)
                           field_name == SubSeq(rest, 1, close - 1)
                       IN  IF close = 0 THEN [error |-> "ValueError", text |-> <<>>]
                           ELSE IF field_name = <<>>
                           THEN [error |-> "IndexError", text |-> <<>>]
                           ELSE IF Len(field_name) = 1
                                   /\ field_name[1] \in DOMAIN values
                           THEN prepend(values[field_name[1]],
                                        str_format(SubSeq(rest, close + 1, Len(rest)),
                                                   values))
                           ELSE [error |-> "KeyError", text |-> <<>>]
             ELSE IF c = "}"
             THEN IF rest # <<>> /\ Head(rest) = "}"
                  THEN prepend(<<"}">>, str_format(Tail(rest), values))
                  ELSE [error |-> "ValueError", text |-> <<>>]
             ELSE prepend(<<c>>, str_format(rest, values))

\* lines 492-527: the exception raised ("" if none), the message returned
\* and the keyword arguments the template was formatted with
format_message(template, member_data, now) ==
    LET kwargs == message_kwargs(member_data, now)
        r == str_format(template, rendered(kwargs))
    IN  [template |-> template, kwargs |-> kwargs, error |-> r.error, text |-> r.text]

(***************************************************************************)
(* DatabaseManager: table message_templates                                *)
(***************************************************************************)
\* lines 149-167, the text between the fields shortened
default_templates ==
    << [template_type |-> "payment_reminder",
        message_text |-> <<"Hi ", "{", "member_name", "}", "! Your payment of Rs ",
                           "{", "amount", "}", " is due on ", "{", "due_date", "}",
                           ". Contact us: ", "{", "phone", "}">>],
       [template_type |-> "overdue_reminder",
        message_text |-> <<"Dear ", "{", "member_name", "}", ", your payment of Rs ",
                           "{", "amount", "}", " is overdue by ", "{", "overdue_days",
                           "}", " days. Contact us: ", "{", "phone", "}">>] >>

\* the id an AUTOINCREMENT table that never deletes gives its next row
next_template_id(rows) ==
    IF rows = {} THEN 1
    ELSE (CHOOSE i \in {r.id : r \in rows} : \A r \in rows : r.id <= i) + 1

\* INSERT OR REPLACE in place of INSERT OR IGNORE
insert_default_templates_Replace(rows, defaults) ==
    {r \in rows : \A n \in DOMAIN defaults : r.template_type # defaults[n].template_type}
    \cup {[id |-> n, template_type |-> defaults[n].template_type,
           message_text |-> defaults[n].message_text] : n \in DOMAIN defaults}

\* lines 169-173: INSERT OR IGNORE of each default; template_type is UNIQUE
RECURSIVE insert_default_templates(_, _)
insert_default_templates(rows, defaults) ==
    IF defaults = <<>> THEN rows
    ELSE LET d == Head(defaults)
             after == IF \E r \in rows : r.template_type = d.template_type
                      THEN rows
                      ELSE rows \cup {[id |-> next_template_id(rows),
                                       template_type |-> d.template_type,
                                       message_text |-> d.message_text]}
         IN  insert_default_templates(after, Tail(defaults))

\* lines 378-387
get_message_template(rows, template_type) ==
    IF \E r \in rows : r.template_type = template_type
    THEN (CHOOSE r \in rows : r.template_type = template_type).message_text
    ELSE <<>>

update_message_template_Upsert(rows, template_type, message_text, ok) ==
    IF ~ok THEN [ret |-> "False", rows |-> rows]
    ELSE [ret |-> "True",
          rows |-> {r \in rows : r.template_type # template_type}
                   \cup {[id |-> next_template_id(rows),
                          template_type |-> template_type,
                          message_text |-> message_text]}]

\* lines 389-404: UPDATE ... WHERE template_type = ?; ok is FALSE when
\* sqlite3 raises (the database is locked, say)
update_message_template(rows, template_type, message_text, ok) ==
    IF ~ok THEN [ret |-> "False", rows |-> rows]
    ELSE [ret |-> "True",
          rows |-> {IF r.template_type = template_type
                    THEN [r EXCEPT !.message_text = message_text]
                    ELSE r : r \in rows}]

(***************************************************************************)
(* ReminderScheduler.get_pending_reminders                                 *)
(***************************************************************************)
\* memcmp order of two byte strings (SQLite's BINARY collation)
RECURSIVE name_leq(_, _)
name_leq(a, b) ==
    IF a = <<>> THEN TRUE
    ELSE IF b = <<>> THEN FALSE
    ELSE IF Head(a) # Head(b) THEN Head(a) < Head(b)
    ELSE name_leq(Tail(a), Tail(b))

\* every listing of the rows of a table, without repetition
listings(rows) ==
    LET n == Cardinality(rows) IN
    {f \in [1..n -> rows] : \A i, j \in 1..n : i # j => f[i] # f[j]}

order_by_name_Unordered(rows) == listings(rows)

\* SELECT ... FROM members ORDER BY name: the order of rows of equal name
\* is not fixed by the query, so every name-sorted listing is a result.
order_by_name(rows) ==
    {f \in listings(rows) :
        \A i, j \in DOMAIN f : i < j => name_leq(f[i].name, f[j].name)}

should_remind_Strict(days_remaining, reminder_days) ==
    days_remaining < 0 \/ days_remaining < reminder_days

\* lines 562-570: the flag the two branches set
should_remind(days_remaining, reminder_days) ==
    IF days_remaining < 0 THEN TRUE
    ELSE IF days_remaining <= reminder_days THEN TRUE
    ELSE FALSE

reminder_type_of_ZeroOverdue(days_remaining, reminder_days) ==
    IF days_remaining <= 0 THEN "overdue_reminder" ELSE "payment_reminder"

\* lines 562-570: the type the two branches set
reminder_type_of(days_remaining, reminder_days) ==
    IF days_remaining < 0 THEN "overdue_reminder"
    ELSE IF days_remaining <= reminder_days THEN "payment_reminder"
    ELSE "payment_reminder"

\* lines 554-585: one iteration's record
reminder_entry(member, now) ==
    LET next_due_date == calculate_next_due_date(member.payment_date, member.membership_type)
        days_remaining == next_due_date - now
    IN  [member_id |-> member.id,
         member_name |-> member.name,
         phone |-> member.phone,
         membership_type |-> member.membership_type,
         amount |-> member.amount,
         payment_date |-> strptime(member.payment_date),
         next_due_date |-> next_due_date,
         days_remaining |-> days_remaining,
         reminder_type |-> reminder_type_of(days_remaining, member.reminder_days),
         reminder_days |-> member.reminder_days]

\* lines 553-588: the loop over the fetched rows
RECURSIVE get_pending_reminders(_, _)
get_pending_reminders(rows, now) ==
    IF rows = <<>> THEN <<>>
    ELSE LET e == reminder_entry(Head(rows), now)
             rest == get_pending_reminders(Tail(rows), now)
         IN  IF should_remind(e.days_remaining, e.reminder_days)
             THEN <<e>> \o rest ELSE rest

abs(n) == IF n < 0 THEN -n ELSE n

\* show_send_reminders, lines 977-1035: the two groups and, in rendering
\* order, the link built for each entry with the template type it reads
overdue_of(pending_reminders) ==
    SelectSeq(pending_reminders, LAMBDA r : r.days_remaining < 0)

due_soon_of(pending_reminders) ==
    SelectSeq(pending_reminders, LAMBDA r : r.days_remaining >= 0)

links_of(overdue, due_soon) ==
    [i \in 1..Len(overdue) |->
        [reminder |-> overdue[i], template_type |-> "overdue_reminder",
         caption_days |-> abs(overdue[i].days_remaining)]]
    \o
    [i \in 1..Len(due_soon) |->
        [reminder |-> due_soon[i], template_type |-> "payment_reminder",
         caption_days |-> due_soon[i].days_remaining]]

\* DatabaseManager.get_active_subscriptions, lines 281-292: SELECT COUNT(*)
\* ... WHERE date(m.payment_date, '+30 days') >= date(?) with today's date
get_active_subscriptions(rows, now) ==
    Cardinality({m \in rows : strptime(m.payment_date) + 30 >= now})

\* lines 1000-1001 and 1027-1028: the calls of format_message a run of the
\* page makes, one per link in order; the first that raises ends the run
messages_of(links, templates, now) ==
    LET calls == [i \in DOMAIN links |->
                     format_message(get_message_template(templates,
                                                         links[i].template_type),
                                    links[i].reminder, now)]
        raised == {i \in DOMAIN calls : calls[i].error # ""}
    IN  IF raised = {} THEN calls
        ELSE SubSeq(calls, 1, CHOOSE i \in raised : \A j \in raised : i <= j)

(***************************************************************************)
(* DatabaseManager: the write operations.  Each runs on its own connection *)
(* as one SQLite transaction: either conn.commit() makes all its           *)
(* statements visible, or an sqlite3.Error is caught, nothing is           *)
(* committed and the method returns False.  db is the committed store;     *)
(* ok = FALSE stands for an sqlite3.Error that is no constraint violation  *)
(* (the file cannot be opened, the database stays locked); error is the    *)
(* class of the exception the method prints.  No connection sets PRAGMA    *)
(* foreign_keys, so the FOREIGN KEY clauses of init_database are not       *)
(* enforced.  Columns no operation reads (email, notes, created_at,        *)
(* updated_at, message, success) are left out of the rows, and so is       *)
(* member_checkins, a table no operation inserts into.                     *)
(***************************************************************************)
db_of(m, p, r, q) ==
    [members |-> m, payment_history |-> p, reminder_logs |-> r, sqlite_sequence |-> q]

add_member_NoUnique(db, name, phone, membership_type, amount, payment_date, reminder_days, ok) ==
    LET member_id == db.sqlite_sequence.members + 1
        row_id == db.sqlite_sequence.payment_history + 1
    IN  [ret |-> "True", error |-> "",
         db |-> [db EXCEPT
            !.members = @ \cup {[id |-> member_id, name |-> name, phone |-> phone,
                                 membership_type |-> membership_type, amount |-> amount,
                                 payment_date |-> payment_date,
                                 reminder_days |-> reminder_days]},
            !.payment_history = @ \cup {[id |-> row_id, member_id |-> member_id,
                                 amount |-> amount, payment_date |-> payment_date,
                                 payment_method |-> "Initial Payment"]},
            !.sqlite_sequence = [@ EXCEPT !.members = member_id,
                                          !.payment_history = row_id]]]

add_member_DuplicateRaises(db, name, phone, membership_type, amount, payment_date, reminder_days, ok) ==
    IF \E m \in db.members : m.phone = phone
    THEN [ret |-> "Raised", db |-> db, error |-> "IntegrityError"]
    ELSE add_member_NoUnique(db, name, phone, membership_type, amount,
                             payment_date, reminder_days, ok)

add_member(db, name, phone, membership_type, amount, payment_date, reminder_days, ok) ==
    IF ~ok THEN [ret |-> "False", db |-> db, error |-> "OperationalError"]
    ELSE IF \E m \in db.members : m.phone = phone
    THEN [ret |-> "False", db |-> db, error |-> "IntegrityError"]  \* phone ... UNIQUE
    ELSE LET member_id == db.sqlite_sequence.members + 1
             row_id == db.sqlite_sequence.payment_history + 1
         IN  [ret |-> "True", error |-> "",
              db |-> [db EXCEPT
                 !.members = @ \cup {[id |-> member_id, name |-> name, phone |-> phone,
                                      membership_type |-> membership_type,
                                      amount |-> amount, payment_date |-> payment_date,
                                      reminder_days |-> reminder_days]},
                 !.payment_history = @ \cup {[id |-> row_id, member_id |-> member_id,
                                      amount |-> amount, payment_date |-> payment_date,
                                      payment_method |-> "Initial Payment"]},
                 !.sqlite_sequence = [@ EXCEPT !.members = member_id,
                                               !.payment_history = row_id]]]

record_payment(db, member_id, amount, payment_date, payment_method, ok) ==
    IF ~ok THEN [ret |-> "False", db |-> db, error |-> "OperationalError"]
    ELSE LET row_id == db.sqlite_sequence.payment_history + 1
         IN  [ret |-> "True", error |-> "",
              db |-> [db EXCEPT
                 !.payment_history = @ \cup {[id |-> row_id, member_id |-> member_id,
                                      amount |-> amount, payment_date |-> payment_date,
                                      payment_method |-> payment_method]},
                 !.members = {IF m.id = member_id
                              THEN [m EXCEPT !.payment_date = payment_date,
                                             !.amount = amount]
                              ELSE m : m \in @},
                 !.sqlite_sequence = [@ EXCEPT !.payment_history = row_id]]]

log_reminder(db, member_id, reminder_type, ok) ==
    IF ~ok THEN [ret |-> "False", db |-> db, error |-> "OperationalError"]
    ELSE LET row_id == db.sqlite_sequence.reminder_logs + 1
         IN  [ret |-> "True", error |-> "",
              db |-> [db EXCEPT
                 !.reminder_logs = @ \cup {[id |-> row_id, member_id |-> member_id,
                                      reminder_type |-> reminder_type]},
                 !.sqlite_sequence = [@ EXCEPT !.reminder_logs = row_id]]]

delete_member_KeepLogs(db, member_id, ok) ==
    [ret |-> "True", error |-> "",
     db |-> [db EXCEPT
        !.payment_history = {p \in @ : p.member_id # member_id},
        !.members = {m \in @ : m.id # member_id}]]

delete_member_AllHistory(db, member_id, ok) ==
    IF ~ok THEN [ret |-> "False", db |-> db, error |-> "OperationalError"]
    ELSE [ret |-> "True", error |-> "",
          db |-> [db EXCEPT
             !.payment_history = {},
             !.reminder_logs = {r \in @ : r.member_id # member_id},
             !.members = {m \in @ : m.id # member_id}]]

delete_member(db, member_id, ok) ==
    IF ~ok THEN [ret |-> "False", db |-> db, error |-> "OperationalError"]
    ELSE [ret |-> "True", error |-> "",
          db |-> [db EXCEPT
             !.payment_history = {p \in @ : p.member_id # member_id},
             !.reminder_logs = {r \in @ : r.member_id # member_id},
             !.members = {m \in @ : m.id # member_id}]]

(***************************************************************************)
(* Bounds and the values the forms are given                               *)
(***************************************************************************)
MaxMemberId == 2      \* members ever registered in a run of Spec
MaxPaymentId == 2     \* payment_history rows ever inserted in a run of Spec
MaxLogId == 1         \* reminder_logs rows ever inserted in a run of Spec
MaxListed == 2        \* members in a store that SpecReminders classifies

\* longest run of digits in a typed phone number
MaxRun == 11

Sessions == {"s1", "s2"}

NoMember == 0

\* login_time is None
NoTime == -1

\* a session without a connection
NoConn == [pc |-> "closed"]

\* a URL without a logout parameter
NoQuery == [present |-> FALSE, value |-> <<>>]

NameInputs == {<<>>, <<65>>}

ListedNames == {<<65>>, <<66>>}

RegisterTiers == {"Monthly Subscriber"}

RegisterReminderDays == {30}

PhoneInputs ==
    { <<>>,
      <<"+">>,
      <<"1", "2", "3", "4", "5">>,
      <<"9", "8", "7", "6", "5", "4", "3", "2", "1", "0">>,
      <<"+", "9", "1", "9", "8", "7", "6", "5", "4", "3", "2", "1", "0">>,
      <<"9", "8", "7", "6", "5", "-", "4", "3", "2", "1", "1">> }

AmountInputs == {0, 500}

DateInputs == {<<2024, 1, 1>>}

ListedDates == {<<2024, 1, 1>>, <<2024, 1, 31>>}

ListedTiers == {"Monthly Subscriber", "Quarterly"}

ReminderDayOptions == {15, 30}

PaymentMethods == {"Cash"}

TierInputs == MembershipTypes \cup {"Weekly", "annual"}

DueDateInputs ==
    {<<y, m, d>> : y \in {2023, 2024}, m \in 1..12, d \in {1, 28}}
    \cup {<<2024, 2, 29>>, <<2023, 12, 31>>}

Todays ==
    { ymd2ord(2024, 1, 20), ymd2ord(2024, 1, 31), ymd2ord(2024, 2, 15),
      ymd2ord(2024, 3, 20) }

DigitChar(i) == <<"0", "1", "2", "3", "4", "5", "6", "7", "8", "9">>[i + 1]

\* the phone of the i-th member of a listed store, as registration stores it
ListedPhone(i) ==
    format_phone_number(<<"9", "8", "7", "6", "5", "4", "3", "2", "1", DigitChar(i)>>)

\* the first n characters of "98765432109876..."
DigitRun(n) == [i \in 1..n |-> DigitChar((20 - i) % 10)]

PhonePrefixes ==
    { <<>>, <<"+">>, <<"+", "9", "1">>, <<"9", "1">>, <<"+", "9", "1", " ">>,
      <<"(">>, <<"0">> }

\* a run of digits as typed: bare, with a dash after the first digit, and
\* followed by a letter, a closing parenthesis or a space
PhoneBodies ==
    UNION { { DigitRun(n),
              (IF n = 0 THEN <<>> ELSE <<DigitRun(n)[1], "-">> \o Tail(DigitRun(n))),
              DigitRun(n) \o <<"a">>,
              DigitRun(n) \o <<")">>,
              DigitRun(n) \o <<" ">> } : n \in 0..MaxRun }

PhoneSamples ==
    { prefix \o body : prefix \in PhonePrefixes, body \in PhoneBodies }
    \cup { <<"1", "2", "3", "4", "5">> }

\* names of the members a message is written for: "A", "{x}" and "{"
MessageNames == {<<65>>, <<123, 120, 125>>, <<123>>}

MessageDates == {<<2024, 1, 1>>, <<2024, 1, 31>>}

MessageTodays == {ymd2ord(2024, 1, 20), ymd2ord(2024, 2, 15)}

TemplateTypeInputs == {"payment_reminder", "overdue_reminder", "welcome_message"}

\* texts typed into a template box
TemplateTexts ==
    { default_templates[1].message_text,
      <<"Hi ", "{", "member_name", "}", " of ", "{", "court_name", "}", ", ",
        "{", "membership_type", "}">>,
      <<"Pay ", "{", "amount", "}", " by ", "{", "due_date", "}", ", late ",
        "{", "overdue_days", "}", ", call ", "{", "phone", "}">>,
      <<"Hi ", "{", "name", "}">>,
      <<"{", "{", "member_name", "}", "}">>,
      <<"Hi ", "{">>,
      <<"Hi ", "{", "}">> }

MessageSamples == { <<"H", "i">>, <<"H", "i", " ", "+", "(", "a", ")", "?">> }

(***************************************************************************)
(* Spec: the store under the page handlers of concurrent sessions          *)
(***************************************************************************)
db == db_of(members, payment_history, reminder_logs, sqlite_sequence)

commit(d) ==
    /\ members' = d.members
    /\ payment_history' = d.payment_history
    /\ reminder_logs' = d.reminder_logs
    /\ sqlite_sequence' = d.sqlite_sequence
    /\ UNCHANGED message_templates

\* main, lines 1335-1337: the state of a session that has run nothing yet
FreshSession ==
    [authenticated |-> FALSE, username |-> "None", login_time |-> NoTime,
     confirm_delete |-> {}]

\* no write in progress, no session logged in, no button shown
OthersIdle ==
    /\ conn = [s \in Sessions |-> NoConn]
    /\ session_state = [s \in Sessions |-> FreshSession]
    /\ clock = 0
    /\ screen = [s \in Sessions |-> [url |-> NoQuery, widgets |-> {}]]

EmptyStore ==
    /\ members = {}
    /\ payment_history = {}
    /\ reminder_logs = {}
    /\ sqlite_sequence = [members |-> 0, payment_history |-> 0, reminder_logs |-> 0]
    /\ message_templates = insert_default_templates({}, default_templates)

Init ==
    /\ OthersIdle
    /\ EmptyStore
    /\ today = ymd2ord(2024, 1, 20)
    /\ held = [s \in Sessions |-> NoMember]
    /\ last = [op |-> "init_database"]

\* show_member_registration without the phone check of lines 731-732
Register_NoValidation ==
    \E name \in NameInputs, phone \in PhoneInputs, membership_type \in RegisterTiers,
       amount \in AmountInputs, payment_date \in DateInputs,
       reminder_days \in RegisterReminderDays, ok \in BOOLEAN :
        /\ UNCHANGED <<today, others, held>>
        /\ IF name = <<>> \/ phone = <<>> \/ amount = 0
           THEN /\ last' = [op |-> "show_member_registration", error |-> "required"]
                /\ UNCHANGED store
           ELSE LET formatted_phone == format_phone_number(phone)
                    r == add_member(db, name, formatted_phone, membership_type, amount,
                                    payment_date, reminder_days, ok)
                IN  /\ r.db.sqlite_sequence.members <= MaxMemberId
                    /\ r.db.sqlite_sequence.payment_history <= MaxPaymentId
                    /\ commit(r.db)
                    /\ last' = [op |-> "add_member", phone |-> formatted_phone,
                                ret |-> r.ret, error |-> r.error,
                                form |-> [name |-> name, phone |-> phone,
                                          amount |-> amount]]

\* show_member_registration, lines 727-752: one submission of the form
Register ==
    \E name \in NameInputs, phone \in PhoneInputs, membership_type \in RegisterTiers,
       amount \in AmountInputs, payment_date \in DateInputs,
       reminder_days \in RegisterReminderDays, ok \in BOOLEAN :
        /\ UNCHANGED <<today, others, held>>
        /\ IF name = <<>> \/ phone = <<>> \/ amount = 0
           THEN /\ last' = [op |-> "show_member_registration", error |-> "required"]
                /\ UNCHANGED store
           ELSE IF ~validate_phone_number(phone)
           THEN /\ last' = [op |-> "show_member_registration", error |-> "phone"]
                /\ UNCHANGED store
           ELSE LET formatted_phone == format_phone_number(phone)
                    r == add_member(db, name, formatted_phone, membership_type, amount,
                                    payment_date, reminder_days, ok)
                IN  /\ r.db.sqlite_sequence.members <= MaxMemberId
                    /\ r.db.sqlite_sequence.payment_history <= MaxPaymentId
                    /\ commit(r.db)
                    /\ last' = [op |-> "add_member", phone |-> formatted_phone,
                                ret |-> r.ret, error |-> r.error,
                                form |-> [name |-> name, phone |-> phone,
                                          amount |-> amount]]

\* show_payment_tracking, line 769: a run of the page reads the member rows;
\* the payment form it renders carries the id of a row it read
PaymentTrackingRead(s) ==
    \E m \in members :
        /\ held' = [held EXCEPT ![s] = m.id]
        /\ last' = [op |-> "get_all_payments", member_id |-> m.id]
        /\ UNCHANGED <<store, today, others>>

\* show_payment_modal, lines 831-847: the form is submitted for the row read
PaymentTrackingSubmit(s) ==
    \E amount \in AmountInputs, payment_date \in DateInputs,
       payment_method \in PaymentMethods, ok \in BOOLEAN :
        /\ held[s] # NoMember
        /\ LET r == record_payment(db, held[s], amount, payment_date, payment_method, ok)
           IN  /\ r.db.sqlite_sequence.payment_history <= MaxPaymentId
               /\ commit(r.db)
               /\ last' = [op |-> "record_payment", member_id |-> held[s],
                           ret |-> r.ret]
        /\ held' = [held EXCEPT ![s] = NoMember]
        /\ UNCHANGED <<today, others>>

\* DatabaseManager.log_reminder, called with the id of a row read earlier
LogReminder ==
    \E member_id \in 1..sqlite_sequence.members,
       reminder_type \in {"payment_reminder"}, ok \in BOOLEAN :
        /\ LET r == log_reminder(db, member_id, reminder_type, ok)
           IN  /\ r.db.sqlite_sequence.reminder_logs <= MaxLogId
               /\ commit(r.db)
               /\ last' = [op |-> "log_reminder", member_id |-> member_id, ret |-> r.ret]
        /\ UNCHANGED <<today, others, held>>

\* show_member_database, lines 1131-1139: the confirmed delete of a row that
\* the run (or an earlier run of this or another session) read
DeleteMember ==
    \E member_id \in 1..sqlite_sequence.members, ok \in BOOLEAN :
        /\ LET r == delete_member(db, member_id, ok)
           IN  /\ commit(r.db)
               /\ last' = [op |-> "delete_member", member_id |-> member_id, ret |-> r.ret]
        /\ UNCHANGED <<today, others, held>>

Next ==
    \/ Register
    \/ \E s \in Sessions : PaymentTrackingRead(s)
    \/ \E s \in Sessions : PaymentTrackingSubmit(s)
    \/ LogReminder
    \/ DeleteMember

Spec == Init /\ [][Next]_vars

(***************************************************************************)
(* SpecDue: calculate_next_due_date applied to a date and a tier           *)
(***************************************************************************)
InitDue ==
    /\ OthersIdle
    /\ EmptyStore
    /\ today = ymd2ord(2024, 1, 20)
    /\ held = [s \in Sessions |-> NoMember]
    /\ \E payment_date \in DueDateInputs, membership_type \in TierInputs :
        last = [op |-> "arguments", payment_date |-> payment_date,
                membership_type |-> membership_type]

CalculateNextDueDate ==
    /\ last.op = "arguments"
    /\ last' = [op |-> "calculate_next_due_date", payment_date |-> last.payment_date,
                membership_type |-> last.membership_type,
                next_due_date |-> calculate_next_due_date(last.payment_date,
                                                          last.membership_type)]
    /\ UNCHANGED <<store, today, others, held>>

\* format_message, lines 492-527, on the entry get_pending_reminders builds
\* (lines 553-581) for a member row with the drawn payment date and tier
FormatMessageOfEntry ==
    /\ last.op = "arguments"
    /\ LET member == [id |-> 1, name |-> <<65>>, phone |-> ListedPhone(1),
                      membership_type |-> last.membership_type, amount |-> 500,
                      payment_date |-> last.payment_date, reminder_days |-> 30]
           entry == reminder_entry(member, today)
       IN  last' = [op |-> "format_message", payment_date |-> last.payment_date,
                    membership_type |-> last.membership_type, entry |-> entry,
                    message |-> format_message(default_templates[1].message_text,
                                               entry, today)]
    /\ UNCHANGED <<store, today, others, held>>

NextDue ==
    \/ CalculateNextDueDate
    \/ FormatMessageOfEntry

SpecDue == InitDue /\ [][NextDue]_vars

(***************************************************************************)
(* SpecReminders: the classifier applied to a store of registered members  *)
(***************************************************************************)
ListedInputs ==
    [name : ListedNames, membership_type : ListedTiers,
     payment_date : ListedDates, reminder_days : ReminderDayOptions]

InitReminders ==
    /\ OthersIdle
    /\ \E n \in 0..MaxListed : \E f \in [1..n -> ListedInputs] :
        /\ members = {[id |-> i, name |-> f[i].name, phone |-> ListedPhone(i),
                       membership_type |-> f[i].membership_type, amount |-> 500,
                       payment_date |-> f[i].payment_date,
                       reminder_days |-> f[i].reminder_days] : i \in 1..n}
        /\ payment_history = {[id |-> i, member_id |-> i, amount |-> 500,
                               payment_date |-> f[i].payment_date,
                               payment_method |-> "Initial Payment"] : i \in 1..n}
        /\ sqlite_sequence = [members |-> n, payment_history |-> n, reminder_logs |-> 0]
    /\ reminder_logs = {}
    /\ message_templates = insert_default_templates({}, default_templates)
    /\ today \in Todays
    /\ held = [s \in Sessions |-> NoMember]
    /\ last = [op |-> "init_database"]

\* ReminderScheduler.get_pending_reminders, lines 537-588 (the dashboard's call)
GetPendingReminders ==
    \E rows \in order_by_name(members) :
        /\ last' = [op |-> "get_pending_reminders", rows |-> rows,
                    pending_reminders |-> get_pending_reminders(rows, today)]
        /\ UNCHANGED <<store, today, others, held>>

\* show_send_reminders, lines 966-1035
ShowSendReminders ==
    \E rows \in order_by_name(members) :
        LET pending_reminders == get_pending_reminders(rows, today)
            overdue == overdue_of(pending_reminders)
            due_soon == due_soon_of(pending_reminders)
            links == links_of(overdue, due_soon)
        IN  /\ last' = [op |-> "show_send_reminders", rows |-> rows,
                        pending_reminders |-> pending_reminders,
                        overdue |-> overdue, due_soon |-> due_soon,
                        links |-> links,
                        messages |-> messages_of(links, message_templates, today)]
            /\ UNCHANGED <<store, today, others, held>>

\* show_dashboard, line 655
GetActiveSubscriptions ==
    /\ last' = [op |-> "get_active_subscriptions",
                count |-> get_active_subscriptions(members, today)]
    /\ UNCHANGED <<store, today, others, held>>

NextReminders ==
    \/ GetPendingReminders
    \/ ShowSendReminders
    \/ GetActiveSubscriptions

SpecReminders == InitReminders /\ [][NextReminders]_vars

(***************************************************************************)
(* SpecTemplates: the templates edited on the settings page and used by    *)
(* the reminders page, over a store of at most one registered member       *)
(***************************************************************************)
InitTemplates ==
    /\ OthersIdle
    /\ \/ /\ members = {}
          /\ payment_history = {}
          /\ sqlite_sequence = [members |-> 0, payment_history |-> 0,
                                reminder_logs |-> 0]
       \/ \E name \in MessageNames, payment_date \in MessageDates :
          /\ members = {[id |-> 1, name |-> name, phone |-> ListedPhone(1),
                         membership_type |-> "Monthly Subscriber", amount |-> 500,
                         payment_date |-> payment_date, reminder_days |-> 30]}
          /\ payment_history = {[id |-> 1, member_id |-> 1, amount |-> 500,
                                 payment_date |-> payment_date,
                                 payment_method |-> "Initial Payment"]}
          /\ sqlite_sequence = [members |-> 1, payment_history |-> 1,
                                reminder_logs |-> 0]
    /\ reminder_logs = {}
    /\ message_templates = insert_default_templates({}, default_templates)
    /\ today \in MessageTodays
    /\ held = [s \in Sessions |-> NoMember]
    /\ last = [op |-> "init_database"]

\* DatabaseManager.__init__, line 18: init_database on the existing file;
\* its CREATE TABLE IF NOT EXISTS and ALTER TABLE statements change no row
InitDatabase ==
    /\ message_templates' = insert_default_templates(message_templates,
                                                     default_templates)
    /\ last' = [op |-> "init_database"]
    /\ UNCHANGED <<members, payment_history, reminder_logs, sqlite_sequence,
                   today, others, held>>

\* update_message_template, lines 389-404, called by show_message_settings
\* (lines 1171 and 1189) or with another tag
UpdateMessageTemplate ==
    \E template_type \in TemplateTypeInputs, message_text \in TemplateTexts,
       ok \in BOOLEAN :
        LET r == update_message_template(message_templates, template_type,
                                         message_text, ok)
        IN  /\ message_templates' = r.rows
            /\ last' = [op |-> "update_message_template",
                        template_type |-> template_type,
                        message_text |-> message_text, ret |-> r.ret]
            /\ UNCHANGED <<members, payment_history, reminder_logs,
                           sqlite_sequence, today, others, held>>

NextTemplates ==
    \/ InitDatabase
    \/ UpdateMessageTemplate
    \/ ShowSendReminders

SpecTemplates == InitTemplates /\ [][NextTemplates]_vars

(***************************************************************************)
(* SpecPhone: the phone helpers and the link builder applied to typed text *)
(***************************************************************************)
InitPhone ==
    /\ OthersIdle
    /\ EmptyStore
    /\ today = ymd2ord(2024, 1, 20)
    /\ held = [s \in Sessions |-> NoMember]
    /\ \E phone \in PhoneSamples :
         last = [op |-> "input", typed |-> phone, phone |-> phone]

\* format_phone_number applied to the typed text, or to its own result
FormatPhoneNumber ==
    /\ last.op \in {"input", "format_phone_number"}
    /\ LET phone == IF last.op = "input" THEN last.phone ELSE last.ret
       IN  last' = [op |-> "format_phone_number", typed |-> last.typed,
                    phone |-> phone, ret |-> format_phone_number(phone)]
    /\ UNCHANGED <<store, today, others, held>>

ValidatePhoneNumber ==
    /\ last.op = "input"
    /\ last' = [op |-> "validate_phone_number", phone |-> last.phone,
                ret |-> validate_phone_number(last.phone)]
    /\ UNCHANGED <<store, today, others, held>>

\* send_whatsapp_url applied to the typed text, or to a formatted phone
SendWhatsappUrl ==
    /\ last.op \in {"input", "format_phone_number"}
    /\ \E message \in MessageSamples :
         LET phone == IF last.op = "input" THEN last.phone ELSE last.ret
         IN  last' = [op |-> "send_whatsapp_url", phone |-> phone,
                      message |-> message,
                      ret |-> send_whatsapp_url(phone, message)]
    /\ UNCHANGED <<store, today, others, held>>

NextPhone ==
    \/ FormatPhoneNumber
    \/ ValidatePhoneNumber
    \/ SendWhatsappUrl

SpecPhone == InitPhone /\ [][NextPhone]_vars

(***************************************************************************)
(* SpecConn: the writes of DatabaseManager statement by statement, each    *)
(* call on a connection of its own                                         *)
(***************************************************************************)
MaxConnMembers == 2     \* members ever inserted in a run of SpecConn
MaxConnPayments == 3    \* payment_history rows ever inserted in a run of SpecConn

ConnPhones == {ListedPhone(1)}

ConnAmounts == {600, 700}

ConnDates == {<<2024, 1, 31>>}

\* the calls a session can make on the store it sees
ConnCalls ==
    { [op |-> "add_member", name |-> <<65>>, phone |-> phone,
       membership_type |-> "Monthly Subscriber", amount |-> 500,
       payment_date |-> <<2024, 1, 1>>, reminder_days |-> 30] : phone \in ConnPhones }
    \cup
    { [op |-> "record_payment", member_id |-> m.id, amount |-> amount,
       payment_date |-> payment_date, payment_method |-> payment_method] :
         m \in members, amount \in ConnAmounts, payment_date \in ConnDates,
         payment_method \in PaymentMethods }
    \cup
    { [op |-> "delete_member", member_id |-> m.id] : m \in members }

\* cursor.execute('INSERT INTO members ...'), lines 181-185
insert_member(work, call) ==
    IF \E m \in work.members : m.phone = call.phone
    THEN [error |-> "IntegrityError", work |-> work, lastrowid |-> 0]
    ELSE LET member_id == work.sqlite_sequence.members + 1
         IN  [error |-> "", lastrowid |-> member_id,
              work |-> [work EXCEPT
                 !.members = @ \cup {[id |-> member_id, name |-> call.name,
                                      phone |-> call.phone,
                                      membership_type |-> call.membership_type,
                                      amount |-> call.amount,
                                      payment_date |-> call.payment_date,
                                      reminder_days |-> call.reminder_days]},
                 !.sqlite_sequence = [@ EXCEPT !.members = member_id]]]

\* cursor.execute('INSERT INTO payment_history ...'), lines 189-192 and 235-238
insert_payment(work, member_id, amount, payment_date, payment_method) ==
    LET row_id == work.sqlite_sequence.payment_history + 1
    IN  [error |-> "", lastrowid |-> row_id,
         work |-> [work EXCEPT
            !.payment_history = @ \cup {[id |-> row_id, member_id |-> member_id,
                                 amount |-> amount, payment_date |-> payment_date,
                                 payment_method |-> payment_method]},
            !.sqlite_sequence = [@ EXCEPT !.payment_history = row_id]]]

update_member_Skip(work, member_id, amount, payment_date) ==
    [error |-> "", lastrowid |-> 0, work |-> work]

\* cursor.execute('UPDATE members SET payment_date = ?, amount = ? WHERE id = ?')
update_member(work, member_id, amount, payment_date) ==
    [error |-> "", lastrowid |-> 0,
     work |-> [work EXCEPT
        !.members = {IF m.id = member_id
                     THEN [m EXCEPT !.payment_date = payment_date, !.amount = amount]
                     ELSE m : m \in @}]]

\* the DELETE statements of delete_member, in the order of lines 429-438
delete_rows(work, table, member_id) ==
    [error |-> "", lastrowid |-> 0,
     work |-> CASE table = "payment_history" ->
                     [work EXCEPT !.payment_history = {p \in @ : p.member_id # member_id}]
                [] table = "reminder_logs" ->
                     [work EXCEPT !.reminder_logs = {l \in @ : l.member_id # member_id}]
                [] table = "members" ->
                     [work EXCEPT !.members = {m \in @ : m.id # member_id}]]

\* how many statements the call executes before conn.commit()
statements(call) ==
    CASE call.op = "add_member" -> 2
      [] call.op = "record_payment" -> 2
      [] call.op = "delete_member" -> 3

\* the k-th statement of the call, on the connection's view of the store;
\* lastrowid is cursor.lastrowid after the statement before it
execute(work, call, k, lastrowid) ==
    CASE call.op = "add_member" /\ k = 1 -> insert_member(work, call)
      [] call.op = "add_member" /\ k = 2 ->
            insert_payment(work, lastrowid, call.amount, call.payment_date,
                           "Initial Payment")
      [] call.op = "record_payment" /\ k = 1 ->
            insert_payment(work, call.member_id, call.amount, call.payment_date,
                           call.payment_method)
      [] call.op = "record_payment" /\ k = 2 ->
            update_member(work, call.member_id, call.amount, call.payment_date)
      [] call.op = "delete_member" /\ k = 1 ->
            delete_rows(work, "payment_history", call.member_id)
      [] call.op = "delete_member" /\ k = 2 ->
            delete_rows(work, "reminder_logs", call.member_id)
      [] call.op = "delete_member" /\ k = 3 ->
            delete_rows(work, "members", call.member_id)

write_lock_free_Always(c, s) == TRUE

\* SQLite lets one connection write at a time: a statement that writes waits
\* while another connection has uncommitted statements
write_lock_free(c, s) == \A t \in Sessions \ {s} : c[t].pc # "writing"

rollback_KeepStatements(committed, work) == work

\* the except branches (lines 198-200, 252-254, 443-445) return without
\* conn.commit(): the statements executed on the connection are rolled back
rollback(committed, work) == committed

InitConn ==
    /\ OthersIdle
    /\ EmptyStore
    /\ today = ymd2ord(2024, 2, 15)
    /\ held = [s \in Sessions |-> NoMember]
    /\ last = [op |-> "init_database"]

\* sqlite3.connect(self.db_path): a session enters a write of DatabaseManager;
\* overlapped tells whether a call of another session was in progress during it
Connect(s) ==
    \E call \in ConnCalls :
        /\ conn[s].pc = "closed"
        /\ conn' = [t \in Sessions |->
                      IF t = s
                      THEN [pc |-> "connected", call |-> call, done |-> 0,
                            lastrowid |-> 0,
                            overlapped |-> \E u \in Sessions \ {s} : conn[u].pc # "closed"]
                      ELSE IF conn[t].pc # "closed"
                      THEN [conn[t] EXCEPT !.overlapped = TRUE]
                      ELSE conn[t]]
        /\ UNCHANGED <<store, today, held, session_state, clock, screen, last>>

\* cursor.execute(...): the next statement of the call; an IntegrityError
\* leaves through the except branch
Execute(s) ==
    /\ conn[s].pc \in {"connected", "writing"}
    /\ conn[s].done < statements(conn[s].call)
    /\ write_lock_free(conn, s)
    /\ LET c == conn[s]
           view == IF c.pc = "writing" THEN c.work ELSE db
           r == execute(view, c.call, c.done + 1, c.lastrowid)
       IN  /\ r.work.sqlite_sequence.members <= MaxConnMembers
           /\ r.work.sqlite_sequence.payment_history <= MaxConnPayments
           /\ IF r.error # ""
              THEN /\ conn' = [conn EXCEPT ![s] = NoConn]
                   /\ commit(rollback(db, view))
                   /\ last' = [op |-> c.call.op, session |-> s, call |-> c.call,
                               ret |-> "False", overlapped |-> c.overlapped,
                               done |-> c.done]
              ELSE /\ conn' = [conn EXCEPT ![s] =
                                 [pc |-> "writing", call |-> c.call,
                                  done |-> c.done + 1, lastrowid |-> r.lastrowid,
                                  overlapped |-> c.overlapped, work |-> r.work]]
                   /\ UNCHANGED <<store, last>>
    /\ UNCHANGED <<today, held, session_state, clock, screen>>

\* conn.commit(); conn.close(); return True (done: the statements executed)
Commit(s) ==
    /\ conn[s].pc = "writing"
    /\ conn[s].done = statements(conn[s].call)
    /\ commit(conn[s].work)
    /\ conn' = [conn EXCEPT ![s] = NoConn]
    /\ last' = [op |-> conn[s].call.op, session |-> s, call |-> conn[s].call,
                ret |-> "True", overlapped |-> conn[s].overlapped,
                done |-> conn[s].done]
    /\ UNCHANGED <<today, held, session_state, clock, screen>>

\* sqlite3.Error at a statement or at the commit (the wait for the write
\* lock timing out, a disk error): print, return False
Raise(s) ==
    /\ conn[s].pc \in {"connected", "writing"}
    /\ commit(rollback(db, IF conn[s].pc = "writing" THEN conn[s].work ELSE db))
    /\ conn' = [conn EXCEPT ![s] = NoConn]
    /\ last' = [op |-> conn[s].call.op, session |-> s, call |-> conn[s].call,
                ret |-> "False", overlapped |-> conn[s].overlapped,
                done |-> conn[s].done]
    /\ UNCHANGED <<today, held, session_state, clock, screen>>

\* get_all_payments on a connection of its own: what a reader is shown
ReadStore(s) ==
    /\ conn[s].pc = "closed"
    /\ last' = [op |-> "get_all_payments", session |-> s,
                rows |-> members, history |-> payment_history]
    /\ UNCHANGED <<store, today, held, others>>

NextConn ==
    \/ \E s \in Sessions : Connect(s)
    \/ \E s \in Sessions : Execute(s)
    \/ \E s \in Sessions : Commit(s)
    \/ \E s \in Sessions : Raise(s)
    \/ \E s \in Sessions : ReadStore(s)

SpecConn == InitConn /\ [][NextConn]_vars

(***************************************************************************)
(* SpecAuth: script runs of main in browser sessions, against the clock    *)
(***************************************************************************)
MaxTicks == 3           \* steps of the clock in a run of SpecAuth

\* check_authentication, line 1305: 4 hours in seconds
SessionTimeout == 14400

\* the clock moves in steps of two hours
TickSeconds == SessionTimeout \div 2

\* the URLs a session is opened with: no query, ?logout=true, ?logout=TRUE
\* and ?logout=
QueryInputs ==
    { NoQuery,
      [present |-> TRUE, value |-> <<"t", "r", "u", "e">>],
      [present |-> TRUE, value |-> <<"T", "R", "U", "E">>],
      [present |-> TRUE, value |-> <<>>] }

Pages == {"Dashboard", "Member Registration"}

\* what the user did to start the run: changed a widget that is not a button,
\* submitted the login form with good or bad credentials, pressed Logout,
\* submitted the registration form
Events == {"none", "login_ok", "login_bad", "logout", "register"}

\* str.lower on one character
lower(ch) ==
    CASE ch = "T" -> "t" [] ch = "R" -> "r" [] ch = "U" -> "u" [] ch = "E" -> "e"
      [] OTHER -> ch

\* st.query_params.get("logout", [""]): the value of the parameter, a string,
\* or the default, a list holding the empty string
query_get(query) == IF query.present THEN query.value ELSE << <<>> >>

check_authentication_NoTimeout(ss, query, now) ==
    IF ~ss.authenticated
    THEN [ret |-> "False", session_state |-> ss, rerun |-> FALSE]
    ELSE [ret |-> "True", session_state |-> ss, rerun |-> FALSE]

\* check_authentication, lines 1287-1312
check_authentication(ss, query, now) ==
    LET got == query_get(query)
    IN  IF got = <<>>
        THEN [ret |-> "IndexError", session_state |-> ss, rerun |-> FALSE]
        ELSE LET first == IF query.present THEN <<got[1]>> ELSE got[1]
                 logout_param == [i \in 1..Len(first) |-> lower(first[i])]
             IN  IF logout_param = <<"t", "r", "u", "e">>
                 THEN \* session_state.clear(); the rerun sets the defaults again
                      [ret |-> "False", session_state |-> FreshSession, rerun |-> TRUE]
                 ELSE IF ~ss.authenticated
                 THEN [ret |-> "False", session_state |-> ss, rerun |-> FALSE]
                 ELSE IF ss.login_time # NoTime /\ now - ss.login_time > SessionTimeout
                 THEN [ret |-> "False", rerun |-> FALSE,
                       session_state |-> [ss EXCEPT !.authenticated = FALSE,
                                                    !.username = "None",
                                                    !.login_time = NoTime]]
                 ELSE [ret |-> "True", session_state |-> ss, rerun |-> FALSE]

\* logout, lines 1314-1319
logout(ss) ==
    [ss EXCEPT !.authenticated = FALSE, !.username = "None", !.login_time = NoTime]

\* one run of the script: main, lines 1325-1559, with show_login and the page
\* selected in the sidebar; d is the committed store
main(ss, query, event, page, now, d, ok) ==
    LET c == check_authentication(ss, query, now)
        out == [session_state |-> c.session_state, query |-> query, check |-> c.ret,
                handler |-> "none", shown |-> "none", widgets |-> {},
                rerun |-> FALSE, db |-> d, ret |-> "None"]
    IN  IF c.ret = "IndexError"
        THEN [out EXCEPT !.shown = "exception"]
        ELSE IF c.rerun
        THEN [out EXCEPT !.query = NoQuery, !.rerun = TRUE]
        ELSE IF c.ret = "False"
        THEN IF event = "login_ok"
             THEN [out EXCEPT !.rerun = TRUE,
                              !.session_state = [@ EXCEPT !.authenticated = TRUE,
                                                          !.username = "admin",
                                                          !.login_time = now]]
             ELSE [out EXCEPT !.shown = "login", !.widgets = {"login_form"}]
        ELSE IF event = "logout"
        THEN [out EXCEPT !.rerun = TRUE, !.session_state = logout(@)]
        ELSE IF page = "Dashboard"
        THEN [out EXCEPT !.handler = "show_dashboard", !.shown = "page",
                         !.widgets = {"logout_button"}]
        ELSE IF event = "register"
        THEN LET r == add_member(d, <<65>>, ListedPhone(1), "Monthly Subscriber", 500,
                                 <<2024, 1, 1>>, 30, ok)
             IN  [out EXCEPT !.handler = "show_member_registration", !.shown = "page",
                             !.widgets = {"logout_button", "registration_form"},
                             !.db = r.db, !.ret = r.ret]
        ELSE [out EXCEPT !.handler = "show_member_registration", !.shown = "page",
                         !.widgets = {"logout_button", "registration_form"}]

\* the run, and the run that st.rerun() starts at once
main_with_rerun(ss, query, event, page, now, d, ok) ==
    LET first == main(ss, query, event, page, now, d, ok)
    IN  IF first.rerun
        THEN [main(first.session_state, first.query, "none", "Dashboard", now,
                   first.db, ok) EXCEPT !.check = first.check]
        ELSE first

InitAuth ==
    /\ OthersIdle
    /\ EmptyStore
    /\ today = ymd2ord(2024, 1, 20)
    /\ held = [s \in Sessions |-> NoMember]
    /\ last = [op |-> "init_database"]

\* what a run leaves behind
ran(s, event, r) ==
    /\ session_state' = [session_state EXCEPT ![s] = r.session_state]
    /\ screen' = [screen EXCEPT ![s] = [url |-> r.query, widgets |-> r.widgets]]
    /\ r.db.sqlite_sequence.members <= MaxMemberId
    /\ commit(r.db)
    /\ last' = [op |-> "main", session |-> s, event |-> event, at |-> clock,
                check |-> r.check, handler |-> r.handler, shown |-> r.shown,
                authenticated |-> r.session_state.authenticated,
                login_time |-> r.session_state.login_time]

\* the browser loads the app: a new session, whose first run has no event
Open(s) ==
    \E url \in QueryInputs :
        /\ ran(s, "open", main_with_rerun(FreshSession, url, "none", "Dashboard",
                                          clock, db, TRUE))
        /\ UNCHANGED <<today, held, conn, clock>>

\* the user acts on a widget that the last run of the session rendered
Run(s) ==
    \E event \in Events, page \in Pages, ok \in BOOLEAN :
        /\ event \in {"login_ok", "login_bad"} => "login_form" \in screen[s].widgets
        /\ event = "logout" => "logout_button" \in screen[s].widgets
        /\ event = "register" =>
              "registration_form" \in screen[s].widgets /\ page = "Member Registration"
        /\ screen[s].widgets # {}
        /\ ran(s, event, main_with_rerun(session_state[s], screen[s].url, event, page,
                                         clock, db, ok))
        /\ UNCHANGED <<today, held, conn, clock>>

\* time passes
Tick ==
    /\ clock < MaxTicks * TickSeconds
    /\ clock' = clock + TickSeconds
    /\ UNCHANGED <<store, today, held, conn, session_state, screen, last>>

NextAuth ==
    \/ \E s \in Sessions : Open(s)
    \/ \E s \in Sessions : Run(s)
    \/ Tick

SpecAuth == InitAuth /\ [][NextAuth]_vars

(***************************************************************************)
(* SpecDelete: the Member Database page, its delete buttons and its        *)
(* confirmation dialog                                                     *)
(***************************************************************************)
NoEvent == [button |-> "none", id |-> NoMember]

\* the buttons a run of the page renders: a delete button per listed member
\* and, for the members whose confirm_delete flag is set, the two buttons of
\* the dialog
rendered_buttons(rows, ss) ==
    { [button |-> "delete_btn", id |-> m.id] : m \in rows }
    \cup { [button |-> b, id |-> m.id] :
             b \in {"confirm_yes", "confirm_no"},
             m \in {n \in rows : n.id \in ss.confirm_delete} }

show_member_database_DeleteAtOnce(ss, event, d, ok) ==
    IF event.button = "delete_btn" /\ \E m \in d.members : m.id = event.id
    THEN LET r == delete_member(d, event.id, ok)
         IN  [session_state |-> ss, db |-> r.db, called |-> "delete_member",
              ret |-> r.ret, widgets |-> rendered_buttons(r.db.members, ss),
              clicked |-> event.button]
    ELSE [session_state |-> ss, db |-> d, called |-> "none", ret |-> "None",
          widgets |-> rendered_buttons(d.members, ss), clicked |-> "none"]

\* show_member_database, lines 1069-1151, in a run started by a click on the
\* button event (or by no button); a rerun renders the page again.  clicked is
\* the button whose st.button call returned True: a button of a member that is
\* no longer listed, or of a dialog that is no longer open, is not rendered
\* and its click is dropped
show_member_database(ss, event, d, ok) ==
    LET listed == \E m \in d.members : m.id = event.id
        set == [ss EXCEPT !.confirm_delete = @ \cup {event.id}]
        cleared == [ss EXCEPT !.confirm_delete = @ \ {event.id}]
        idle == [session_state |-> ss, db |-> d, called |-> "none", ret |-> "None",
                 widgets |-> rendered_buttons(d.members, ss), clicked |-> "none"]
    IN  IF ~listed
        THEN idle
        ELSE IF event.button = "delete_btn"
        THEN [idle EXCEPT !.session_state = set, !.clicked = event.button,
                          !.widgets = rendered_buttons(d.members, set)]
        ELSE IF event.id \notin ss.confirm_delete
        THEN idle
        ELSE IF event.button = "confirm_yes"
        THEN LET r == delete_member(d, event.id, ok)
             IN  IF r.ret = "True"
                 THEN [session_state |-> cleared, db |-> r.db,
                       called |-> "delete_member", ret |-> r.ret,
                       widgets |-> rendered_buttons(r.db.members, cleared),
                       clicked |-> event.button]
                 ELSE [idle EXCEPT !.called = "delete_member", !.ret = r.ret,
                                   !.clicked = event.button]
        ELSE IF event.button = "confirm_no"
        THEN [idle EXCEPT !.session_state = cleared, !.clicked = event.button,
                          !.widgets = rendered_buttons(d.members, cleared)]
        ELSE idle

InitDelete ==
    /\ OthersIdle
    /\ EmptyStore
    /\ today = ymd2ord(2024, 1, 20)
    /\ held = [s \in Sessions |-> NoMember]
    /\ last = [op |-> "init_database"]

\* a registration, so that the page has members to list
RegisterListed ==
    \E name \in ListedNames, ok \in BOOLEAN :
        /\ LET r == add_member(db, name, ListedPhone(sqlite_sequence.members + 1),
                               "Monthly Subscriber", 500, <<2024, 1, 1>>, 30, ok)
           IN  /\ r.db.sqlite_sequence.members <= MaxMemberId
               /\ commit(r.db)
               /\ last' = [op |-> "add_member", ret |-> r.ret]
        /\ UNCHANGED <<today, held, others>>

\* a run of the Member Database page in session s
ShowMemberDatabase(s) ==
    \E event \in screen[s].widgets \cup {NoEvent}, ok \in BOOLEAN :
        LET r == show_member_database(session_state[s], event, db, ok)
        IN  /\ session_state' = [session_state EXCEPT ![s] = r.session_state]
            /\ screen' = [screen EXCEPT ![s] = [@ EXCEPT !.widgets = r.widgets]]
            /\ commit(r.db)
            /\ last' = [op |-> "show_member_database", session |-> s, event |-> event,
                        clicked |-> r.clicked, called |-> r.called, ret |-> r.ret]
            /\ UNCHANGED <<today, held, conn, clock>>

NextDelete ==
    \/ RegisterListed
    \/ \E s \in Sessions : ShowMemberDatabase(s)

SpecDelete == InitDelete /\ [][NextDelete]_vars

(***************************************************************************)
(* SpecCycle: one member over the days, payments dated the day they are    *)
(* recorded, and the pending reminders of each day                         *)
(***************************************************************************)
MaxDays == 32           \* days that pass in a run of SpecCycle

CycleStart == ymd2ord(2024, 1, 31)

\* the members get_pending_reminders reports on the day now
pending_of(rows, now) ==
    LET listing == CHOOSE f \in order_by_name(rows) : TRUE
        pending_reminders == get_pending_reminders(listing, now)
    IN  {pending_reminders[i] : i \in DOMAIN pending_reminders}

\* the reminder_type of a member's entry, "none" if it has none
pending_type(rows, now, member_id) ==
    IF \E e \in pending_of(rows, now) : e.member_id = member_id
    THEN (CHOOSE e \in pending_of(rows, now) : e.member_id = member_id).reminder_type
    ELSE "none"

\* a store with one member, registered 30 days before CycleStart
InitCycle ==
    /\ OthersIdle
    /\ \E membership_type \in ListedTiers, payment_date \in DateInputs,
          reminder_days \in ReminderDayOptions :
        /\ members = {[id |-> 1, name |-> <<65>>, phone |-> ListedPhone(1),
                       membership_type |-> membership_type, amount |-> 500,
                       payment_date |-> payment_date,
                       reminder_days |-> reminder_days]}
        /\ payment_history = {[id |-> 1, member_id |-> 1, amount |-> 500,
                               payment_date |-> payment_date,
                               payment_method |-> "Initial Payment"]}
    /\ sqlite_sequence = [members |-> 1, payment_history |-> 1, reminder_logs |-> 0]
    /\ reminder_logs = {}
    /\ message_templates = insert_default_templates({}, default_templates)
    /\ today = CycleStart
    /\ held = [s \in Sessions |-> NoMember]
    /\ last = [op |-> "init_database"]

\* show_payment_modal, lines 818-847, with the payment date left at its
\* default, datetime.now().date()
RecordPaymentToday ==
    \E m \in members, payment_method \in PaymentMethods, ok \in BOOLEAN :
        /\ LET r == record_payment(db, m.id, m.amount, ord2ymd(today), payment_method, ok)
           IN  /\ r.db.sqlite_sequence.payment_history <= MaxPaymentId
               /\ commit(r.db)
               /\ last' = [op |-> "record_payment", member_id |-> m.id, ret |-> r.ret,
                           at |-> today,
                           was |-> pending_type(members, today, m.id)]
        /\ UNCHANGED <<today, others, held>>

\* the next day
NextDay ==
    /\ today < CycleStart + MaxDays
    /\ today' = today + 1
    /\ UNCHANGED <<store, others, held, last>>

\* ReminderScheduler.get_pending_reminders on the day
PendingToday ==
    \E rows \in order_by_name(members) :
        /\ last' = [op |-> "get_pending_reminders", at |-> today,
                    pending_reminders |-> get_pending_reminders(rows, today)]
        /\ UNCHANGED <<store, today, others, held>>

NextCycle ==
    \/ RecordPaymentToday
    \/ NextDay
    \/ PendingToday

SpecCycle == InitCycle /\ [][NextCycle]_vars

(***************************************************************************)
(* Properties                                                              *)
(***************************************************************************)
entries_of(seq) == {seq[i] : i \in DOMAIN seq}

\* next_due_date - today of a member row
days_remaining_of(m) == calculate_next_due_date(m.payment_date, m.membership_type) - today

\* C1: calculate_next_due_date returns a date for every payment date and
\* tier, and it lies 30 days after the payment date for 'Monthly Subscriber',
\* 90 for 'Quarterly', 180 for 'Half Yearly', 365 for 'Annual' and 30 for
\* every other tier value.
C1_DueDateOffset ==
    last.op = "calculate_next_due_date" =>
        /\ last.next_due_date \in Int
        /\ last.next_due_date - strptime(last.payment_date) =
              CASE last.membership_type = "Monthly Subscriber" -> 30
                [] last.membership_type = "Quarterly" -> 90
                [] last.membership_type = "Half Yearly" -> 180
                [] last.membership_type = "Annual" -> 365
                [] OTHER -> 30

C1_Witness ==
    /\ last.op = "calculate_next_due_date"
    /\ last.membership_type = "Annual"
    /\ last.payment_date = <<2024, 2, 29>>
    /\ last.next_due_date = ymd2ord(2025, 2, 28)

C1_WitnessUnrecognized ==
    /\ last.op = "calculate_next_due_date"
    /\ last.membership_type \notin MembershipTypes
    /\ last.next_due_date = strptime(last.payment_date) + 30

\* C2: a member is in the result of get_pending_reminders if and only if
\* its days_remaining is negative or lies between 0 and its reminder_days;
\* a member with days_remaining above reminder_days is not in it.
C2_PendingIff ==
    last.op = "get_pending_reminders" =>
        \A m \in members :
            LET listed == \E e \in entries_of(last.pending_reminders) : e.member_id = m.id
                d == days_remaining_of(m)
            IN  /\ listed <=> (d < 0 \/ (0 <= d /\ d <= m.reminder_days))
                /\ d > m.reminder_days => ~listed

C2_Witness ==
    /\ last.op = "get_pending_reminders"
    /\ \E m1, m2 \in members :
        /\ days_remaining_of(m1) = m1.reminder_days
        /\ days_remaining_of(m2) > m2.reminder_days
        /\ Len(last.pending_reminders) = 1
        /\ last.pending_reminders[1].member_id = m1.id

\* C3: an entry of get_pending_reminders is an 'overdue_reminder' exactly
\* when its days_remaining is negative and a 'payment_reminder' exactly when
\* it is not; the Send Reminders page puts every entry in exactly one of its
\* two groups, builds its link from the template of the entry's
\* reminder_type, and shows |days_remaining| as the overdue severity.
C3_TypeAndGroup ==
    /\ last.op \in {"get_pending_reminders", "show_send_reminders"} =>
        \A e \in entries_of(last.pending_reminders) :
            /\ e.reminder_type = "overdue_reminder" <=> e.days_remaining < 0
            /\ e.reminder_type = "payment_reminder" <=> e.days_remaining >= 0
    /\ last.op = "show_send_reminders" =>
        /\ \A e \in entries_of(last.pending_reminders) :
            Cardinality({i \in DOMAIN last.overdue : last.overdue[i] = e})
              + Cardinality({i \in DOMAIN last.due_soon : last.due_soon[i] = e}) = 1
        /\ Len(last.links) = Len(last.pending_reminders)
        /\ \A l \in entries_of(last.links) :
            /\ l.reminder \in entries_of(last.pending_reminders)
            /\ l.template_type = l.reminder.reminder_type
            /\ l.reminder.days_remaining < 0 => l.caption_days = -l.reminder.days_remaining

C3_Witness ==
    /\ last.op = "show_send_reminders"
    /\ Len(last.overdue) = 1
    /\ Len(last.due_soon) = 1
    /\ last.links[1].template_type = "overdue_reminder"
    /\ last.links[2].template_type = "payment_reminder"

\* C4 as stated: paid 2024-01-01, Monthly, reminder_days 30, today
\* 2024-01-20: days_remaining is 10 and the member is due-soon.
C4_Case(days) ==
    (last.op = "get_pending_reminders" /\ today = ymd2ord(2024, 1, 20)) =>
        \A m \in members :
            (/\ m.payment_date = <<2024, 1, 1>>
             /\ m.membership_type = "Monthly Subscriber"
             /\ m.reminder_days = 30) =>
                \E e \in entries_of(last.pending_reminders) :
                    /\ e.member_id = m.id
                    /\ e.next_due_date = ymd2ord(2024, 1, 31)
                    /\ e.days_remaining = days
                    /\ e.reminder_type = "payment_reminder"

C4_AsStated == C4_Case(10)

\* C4 (amended): paid 2024-01-01, Monthly, reminder_days 30, today
\* 2024-01-20: the due date is 2024-01-31, days_remaining is 11 and the
\* member is due-soon.
C4_DueSoonEleven == C4_Case(11)

C4_Witness ==
    /\ last.op = "get_pending_reminders"
    /\ today = ymd2ord(2024, 1, 20)
    /\ \E e \in entries_of(last.pending_reminders) :
        /\ e.payment_date = ymd2ord(2024, 1, 1)
        /\ e.membership_type = "Monthly Subscriber"
        /\ e.reminder_days = 30
        /\ e.days_remaining = 11

\* C5: paid 2024-01-01, Monthly, reminder_days 30, today 2024-02-15:
\* days_remaining is -15 and the member is overdue with severity 15.
C5_OverdueFifteen ==
    (last.op = "show_send_reminders" /\ today = ymd2ord(2024, 2, 15)) =>
        \A m \in members :
            (/\ m.payment_date = <<2024, 1, 1>>
             /\ m.membership_type = "Monthly Subscriber"
             /\ m.reminder_days = 30) =>
                \E l \in entries_of(last.links) :
                    /\ l.reminder.member_id = m.id
                    /\ l.reminder.days_remaining = -15
                    /\ l.reminder.reminder_type = "overdue_reminder"
                    /\ l.reminder \in entries_of(last.overdue)
                    /\ l.caption_days = 15

C5_Witness ==
    /\ last.op = "show_send_reminders"
    /\ today = ymd2ord(2024, 2, 15)
    /\ \E e \in entries_of(last.overdue) :
        /\ e.payment_date = ymd2ord(2024, 1, 1)
        /\ e.membership_type = "Monthly Subscriber"
        /\ e.reminder_days = 30
        /\ e.days_remaining = -15

\* C6: the result of get_pending_reminders is in non-decreasing order of
\* member name, and it is a name-ordered listing of all members with the
\* members that are not pending removed, whatever their due dates.
C6_OrderedByName ==
    last.op = "get_pending_reminders" =>
        LET p == last.pending_reminders
            is_pending(m) == \E e \in entries_of(p) : e.member_id = m.id
        IN  /\ \A i, j \in DOMAIN p :
                i < j => name_leq(p[i].member_name, p[j].member_name)
            /\ \E f \in listings(members) :
                /\ \A i, j \in DOMAIN f : i < j => name_leq(f[i].name, f[j].name)
                /\ LET kept == SelectSeq(f, is_pending)
                   IN  /\ Len(kept) = Len(p)
                       /\ \A i \in DOMAIN p : p[i].member_id = kept[i].id

C6_Witness ==
    /\ last.op = "get_pending_reminders"
    /\ Len(last.pending_reminders) = 2
    /\ last.pending_reminders[1].member_name = <<65>>
    /\ last.pending_reminders[2].member_name = <<66>>
    /\ last.pending_reminders[1].member_id > last.pending_reminders[2].member_id
    /\ last.pending_reminders[1].next_due_date > last.pending_reminders[2].next_due_date

\* C7: when delete_member(m) returns True, the store holds no member row
\* with id m and no payment_history or reminder_logs row of member m.
C7_DeleteLeavesNoOrphans ==
    (last.op = "delete_member" /\ last.ret = "True") =>
        /\ \A m \in members : m.id # last.member_id
        /\ \A p \in payment_history : p.member_id # last.member_id
        /\ \A r \in reminder_logs : r.member_id # last.member_id

\* member 1, the only member ever registered, had two payment rows and a
\* reminder log, and its delete has just returned True
C7_Witness ==
    /\ last = [op |-> "delete_member", member_id |-> 1, ret |-> "True"]
    /\ sqlite_sequence = [members |-> 1, payment_history |-> 2, reminder_logs |-> 1]
    /\ members = {}
    /\ payment_history = {}
    /\ reminder_logs = {}

\* C8: in every reachable state every payment_history row's member_id
\* refers to exactly one existing member row.
C8_PaymentsReferToMembers ==
    \A p \in payment_history :
        Cardinality({m \in members : m.id = p.member_id}) = 1

\* C9: no two member rows have the same phone and no member row has an
\* empty phone.
C9_PhoneUniqueNonEmpty ==
    /\ \A m1, m2 \in members : m1.id # m2.id => m1.phone # m2.phone
    /\ \A m \in members : m.phone # <<>>

\* two members are registered, and a further registration whose phone
\* formats to the phone of one of them has just been refused
C9_Witness ==
    /\ Cardinality(members) = 2
    /\ last.op = "add_member"
    /\ last.error = "IntegrityError"

\* C10: add_member called with the phone of an existing member returns
\* False, raises nothing, and adds no member row and no payment_history row.
C10_DuplicatePhoneRejected ==
    [][ (last'.op = "add_member" /\ \E m \in members : m.phone = last'.phone) =>
            /\ last'.ret = "False"
            /\ members' = members
            /\ payment_history' = payment_history
            /\ reminder_logs' = reminder_logs ]_vars

C10_Witness ==
    /\ last.op = "add_member"
    /\ last.ret = "False"
    /\ last.error = "IntegrityError"
    /\ \E m \in members : m.phone = last.phone

\* C11: a registration form submitted with an empty name, an empty phone, a
\* zero amount or a phone that validate_phone_number rejects never reaches
\* add_member, and the store is the same before and after the submission.
C11_RejectedFormWritesNothing ==
    [][ /\ last'.op = "show_member_registration" => UNCHANGED store
        /\ last'.op = "add_member" =>
              /\ last'.form.name # <<>>
              /\ last'.form.phone # <<>>
              /\ last'.form.amount # 0
              /\ validate_phone_number(last'.form.phone) ]_vars

\* a form with a bad phone, and one with a missing field, were refused while
\* the store held a member
C11_Witness ==
    /\ last.op = "show_member_registration"
    /\ last.error = "phone"
    /\ members # {}

C11_WitnessRequired ==
    /\ last.op = "show_member_registration"
    /\ last.error = "required"
    /\ members # {}

\* the characters of a text that are digits, in order
only_digits(text) == SelectSeq(text, LAMBDA c : c \in Digits)

\* C12: format_phone_number(p) removes every non-digit character of p, which
\* gives s, and returns '+' and s if s is 12 digits starting with '91', '+91'
\* and s if s is 10 digits, '+' and s if s has more than 10 digits, and s
\* otherwise; '9876543210' gives '+919876543210' and '12345' gives '12345'.
C12_FormatBranches ==
    last.op = "format_phone_number" =>
        LET s == only_digits(last.phone) IN
        /\ last.ret =
              IF Len(s) = 12 /\ s[1] = "9" /\ s[2] = "1" THEN <<"+">> \o s
              ELSE IF Len(s) = 10 THEN <<"+", "9", "1">> \o s
              ELSE IF Len(s) > 10 THEN <<"+">> \o s
              ELSE s
        /\ last.phone = <<"9", "8", "7", "6", "5", "4", "3", "2", "1", "0">> =>
              last.ret = <<"+", "9", "1", "9", "8", "7", "6", "5", "4", "3", "2", "1", "0">>
        /\ last.phone = <<"1", "2", "3", "4", "5">> =>
              last.ret = <<"1", "2", "3", "4", "5">>

\* the ten-digit example was formatted
C12_Witness ==
    /\ last.op = "format_phone_number"
    /\ last.phone = <<"9", "8", "7", "6", "5", "4", "3", "2", "1", "0">>
    /\ last.ret = <<"+", "9", "1", "9", "8", "7", "6", "5", "4", "3", "2", "1", "0">>

\* eleven digits typed between parentheses
C12_WitnessLong ==
    /\ last.op = "format_phone_number"
    /\ last.phone = <<"(">> \o DigitRun(11) \o <<")">>
    /\ last.ret = <<"+">> \o DigitRun(11)

C12_WitnessShort ==
    /\ last.op = "format_phone_number"
    /\ last.phone = <<"1", "2", "3", "4", "5">>
    /\ last.ret = last.phone

\* C13: validate_phone_number(p) is True exactly when p contains exactly 10
\* digits, or 12 digits starting with '91', or is a 13-character input that
\* starts with the literal '+91'; in every other case it is False.
C13_ValidateAsStated ==
    last.op = "validate_phone_number" =>
        LET s == only_digits(last.phone) IN
        last.ret <=>
            \/ Len(s) = 10
            \/ Len(s) = 12 /\ s[1] = "9" /\ s[2] = "1"
            \/ Len(last.phone) = 13 /\ SubSeq(last.phone, 1, 3) = <<"+", "9", "1">>

\* C14: format_phone_number applied to its own result returns that result.
C14_FormatIdempotent ==
    [][ (last.op = "format_phone_number" /\ last'.op = "format_phone_number")
            => last'.ret = last.ret ]_vars

\* the formatted ten-digit example was formatted again
C14_Witness ==
    /\ last.op = "format_phone_number"
    /\ last.typed = <<"9", "8", "7", "6", "5", "4", "3", "2", "1", "0">>
    /\ last.phone = <<"+", "9", "1", "9", "8", "7", "6", "5", "4", "3", "2", "1", "0">>
    /\ last.ret = last.phone

\* the elements of a link between 'https://wa.me/' and the first '?text='
link_phone_part(url) ==
    LET k == CHOOSE k \in 2..Len(url) :
                 /\ url[k] = "?text="
                 /\ \A j \in 2..(k - 1) : url[j] # "?text="
    IN  SubSeq(url, 2, k - 1)

RECURSIVE fields_of(_)
fields_of(template) ==
    IF template = <<>> THEN {}
    ELSE IF Len(template) >= 2 /\ template[1] \in {"{", "}"}
            /\ template[2] = template[1]
    THEN fields_of(SubSeq(template, 3, Len(template)))
    ELSE IF template[1] = "{" /\ closing_brace(Tail(template)) > 0
    THEN LET close == closing_brace(Tail(template)) IN
         {SubSeq(template, 2, close)}
         \cup fields_of(SubSeq(template, close + 2, Len(template)))
    ELSE fields_of(Tail(template))

\* every brace of the template is doubled or belongs to a field with a name
RECURSIVE well_formed(_)
well_formed(template) ==
    IF template = <<>> THEN TRUE
    ELSE IF Len(template) >= 2 /\ template[1] \in {"{", "}"}
            /\ template[2] = template[1]
    THEN well_formed(SubSeq(template, 3, Len(template)))
    ELSE IF template[1] = "{"
    THEN LET close == closing_brace(Tail(template)) IN
         /\ close > 1
         /\ well_formed(SubSeq(template, close + 2, Len(template)))
    ELSE template[1] # "}" /\ well_formed(Tail(template))

\* a "{", later a "}", and no brace between them
has_token(text) ==
    \E i, j \in DOMAIN text :
        /\ i < j
        /\ text[i] = "{"
        /\ text[j] = "}"
        /\ \A k \in (i + 1)..(j - 1) : text[k] \notin {"{", "}"}

ClaimedNames == {"member_name", "amount", "due_date", "overdue_days", "phone"}

SuppliedNames == ClaimedNames \cup {"membership_type", "court_name"}

names(set) == {<<n>> : n \in set}

C15_WitnessKeyError ==
    /\ last.op = "show_send_reminders"
    /\ \E i \in DOMAIN last.messages :
          /\ <<"name">> \in fields_of(last.messages[i].template)
          /\ last.messages[i].error = "KeyError"

\* C16: for every template with only supported placeholders and every
\* member record, names with brace characters included, the message
\* format_message returns has no '{...}' token left.
C16_AsStated ==
    last.op = "show_send_reminders" =>
        \A i \in DOMAIN last.messages :
            LET m == last.messages[i] IN
            (fields_of(m.template) \subseteq names(SuppliedNames) /\ m.error = "")
                => ~has_token(m.text)

\* C16, amended: for every template whose braces all belong to supported
\* placeholders and every member record whose values have no brace
\* character, the message format_message returns has no '{...}' token left.
C16_NoTokenLeft ==
    last.op = "show_send_reminders" =>
        \A i \in DOMAIN last.messages :
            LET m == last.messages[i] IN
            ( /\ fields_of(m.template) \subseteq names(SuppliedNames)
              /\ \A k \in 1..(Len(m.template) - 1) :
                    m.template[k] \in {"{", "}"} => m.template[k + 1] # m.template[k]
              /\ \A k \in DOMAIN m.kwargs.member_name :
                    chr(m.kwargs.member_name[k]) \notin {"{", "}"}
              /\ m.error = "" )
                => ~has_token(m.text)

\* a message with four placeholders was written for member A
C16_Witness ==
    /\ last.op = "show_send_reminders"
    /\ \E i \in DOMAIN last.messages :
          /\ last.messages[i].kwargs.member_name = <<65>>
          /\ Cardinality(fields_of(last.messages[i].template)) = 4
          /\ last.messages[i].error = ""
          /\ last.messages[i].text # <<>>
          /\ ~has_token(last.messages[i].text)

\* C17: the overdue-day count format_message substitutes is today minus
\* the due date when today is after the due date and 0 otherwise, never
\* negative; for an entry of get_pending_reminders of the same day it is
\* |days_remaining| when the entry is overdue and 0 when it is due soon.
C17_OverdueDays ==
    last.op = "show_send_reminders" =>
        \A i \in DOMAIN last.messages :
            LET m == last.messages[i]
                r == last.links[i].reminder
            IN  /\ m.kwargs.overdue_days =
                      IF today > r.next_due_date THEN today - r.next_due_date ELSE 0
                /\ m.kwargs.overdue_days >= 0
                /\ r.days_remaining < 0 => m.kwargs.overdue_days = abs(r.days_remaining)
                /\ r.days_remaining >= 0 => m.kwargs.overdue_days = 0
                /\ <<"overdue_days">> \in fields_of(m.template) =>
                      \E k \in DOMAIN m.text : m.text[k] = ToString(m.kwargs.overdue_days)

\* one page wrote a message for a member 15 days overdue and one for a
\* member due soon
C17_Witness ==
    /\ last.op = "show_send_reminders"
    /\ \E i, j \in DOMAIN last.messages :
          /\ last.links[i].reminder.days_remaining = -15
          /\ last.messages[i].kwargs.overdue_days = 15
          /\ \E k \in DOMAIN last.messages[i].text : last.messages[i].text[k] = "15"
          /\ last.links[j].reminder.days_remaining > 0
          /\ last.messages[j].kwargs.overdue_days = 0

\* C19: after initialization, any sequence of update_message_template calls
\* and repeated initializations, the template store holds exactly one
\* template for 'payment_reminder', exactly one for 'overdue_reminder' and
\* none under another tag; an update with an unknown tag changes nothing.
C19_TwoTemplates ==
    /\ [](/\ \A t \in {"payment_reminder", "overdue_reminder"} :
                Cardinality({r \in message_templates : r.template_type = t}) = 1
           /\ \A r \in message_templates :
                r.template_type \in {"payment_reminder", "overdue_reminder"})
    /\ [][ (/\ last'.op = "update_message_template"
            /\ last'.template_type \notin {"payment_reminder", "overdue_reminder"})
           => UNCHANGED message_templates ]_vars

\* an update under an unknown tag returned True while both templates held
\* edited text
C19_Witness ==
    /\ last.op = "update_message_template"
    /\ last.template_type = "welcome_message"
    /\ last.ret = "True"
    /\ \A r \in message_templates :
          \A n \in 1..2 : r.message_text # default_templates[n].message_text

\* C20: add_member and record_payment never change or remove a row of
\* payment_history that exists; delete_member(m) removes only rows whose
\* member_id is m (the member row of id m) and leaves every other member
\* row and the payment_history and reminder_logs rows of other members as
\* they are.
C20_HistoryAppendOnly ==
    [][ /\ last'.op \in {"add_member", "record_payment"} =>
              payment_history \subseteq payment_history'
        /\ last'.op = "delete_member" =>
              /\ members' \subseteq members
              /\ payment_history' \subseteq payment_history
              /\ reminder_logs' \subseteq reminder_logs
              /\ \A m \in members \ members' : m.id = last'.member_id
              /\ \A p \in payment_history \ payment_history' :
                    p.member_id = last'.member_id
              /\ \A r \in reminder_logs \ reminder_logs' :
                    r.member_id = last'.member_id ]_vars

\* a member was deleted while another member and its payment row stayed
C20_Witness ==
    /\ last.op = "delete_member"
    /\ last.ret = "True"
    /\ \E m \in members : m.id # last.member_id
    /\ \E p \in payment_history : p.member_id # last.member_id
    /\ \A p \in payment_history : p.member_id # last.member_id

\* a payment was recorded on top of the row of the initial payment
C20_WitnessRecorded ==
    /\ last.op = "record_payment"
    /\ last.ret = "True"
    /\ \E p, q \in payment_history : p.id # q.id /\ p.member_id = q.member_id

\* C23: the due date format_message computes for a member record equals
\* calculate_next_due_date(payment_date, membership_type) for every payment
\* date and every membership_type value, recognized or not, so the due date
\* a message shows is the next_due_date of the entry it was built from.
C23_SameDueDate ==
    last.op = "format_message" =>
        /\ last.message.kwargs.due_date =
              strftime(calculate_next_due_date(last.payment_date, last.membership_type))
        /\ last.message.kwargs.due_date = strftime(last.entry.next_due_date)
        /\ last.message.error = ""
        /\ \E k \in DOMAIN last.message.text :
              last.message.text[k] = strftime(last.entry.next_due_date)

\* a message for an Annual member who paid on a leap day, and one for a tier
\* the code does not know
C23_Witness ==
    /\ last.op = "format_message"
    /\ last.membership_type = "Annual"
    /\ last.payment_date = <<2024, 2, 29>>
    /\ last.message.kwargs.due_date = "28-02-2025"

C23_WitnessUnrecognized ==
    /\ last.op = "format_message"
    /\ last.membership_type = "Weekly"
    /\ last.payment_date = <<2023, 12, 31>>
    /\ last.message.kwargs.due_date = "30-01-2024"

\* C22: get_active_subscriptions returns the number of members that are not
\* overdue: those whose next due date, as calculate_next_due_date computes
\* it for their own tier, is on or after today.
C22_ActiveIsNotOverdue ==
    last.op = "get_active_subscriptions" =>
        last.count = Cardinality({m \in members : days_remaining_of(m) >= 0})

TemplateTags == {"payment_reminder", "overdue_reminder"}

\* C27: update_message_template stores any text without checking its
\* placeholders; once the template of a type refers to an unsupported
\* placeholder, every format_message call on get_message_template of that
\* type raises, until the type is updated to a text with only supported
\* placeholders; the default templates always format without error.
C27_BadTemplateRaises ==
    /\ [](last.op = "show_send_reminders" =>
            \A i \in DOMAIN last.messages :
                LET m == last.messages[i] IN
                /\ m.template = get_message_template(message_templates,
                                                     last.links[i].template_type)
                /\ ~(fields_of(m.template) \subseteq names(SuppliedNames))
                      => m.error # ""
                /\ (well_formed(m.template)
                      /\ fields_of(m.template) \subseteq names(SuppliedNames))
                     => m.error = ""
                /\ (\E n \in DOMAIN default_templates :
                        m.template = default_templates[n].message_text)
                     => m.error = "")
    /\ [][ (/\ last'.op = "update_message_template"
            /\ last'.ret = "True"
            /\ last'.template_type \in TemplateTags)
           => get_message_template(message_templates', last'.template_type)
                = last'.message_text ]_vars

\* the page raised on the stored overdue template, which refers to {name},
\* while the payment template was the default
C27_Witness ==
    /\ last.op = "show_send_reminders"
    /\ get_message_template(message_templates, "overdue_reminder")
          = <<"Hi ", "{", "name", "}">>
    /\ get_message_template(message_templates, "payment_reminder")
          = default_templates[1].message_text
    /\ \E i \in DOMAIN last.messages :
          /\ last.links[i].template_type = "overdue_reminder"
          /\ last.messages[i].error = "KeyError"

\* C28: running the database initialization on an existing store never
\* overwrites a template that update_message_template changed and never
\* changes or removes a member, payment or log row: get_message_template
\* returns the same text before and after it.
C28_ReinitKeepsRows ==
    [][ last'.op = "init_database" =>
          /\ \A t \in TemplateTags :
                get_message_template(message_templates', t)
                  = get_message_template(message_templates, t)
          /\ message_templates' = message_templates
          /\ UNCHANGED <<members, payment_history, reminder_logs, sqlite_sequence>>
      ]_vars

\* the initialization ran on a store with a member and two edited templates
C28_Witness ==
    /\ last.op = "init_database"
    /\ members # {}
    /\ \A r \in message_templates :
          \A n \in DOMAIN default_templates :
              r.message_text # default_templates[n].message_text

\* the payment_history row of member m that was inserted last
latest_payment(history, m) ==
    CHOOSE p \in history :
        /\ p.member_id = m.id
        /\ \A q \in history : q.member_id = m.id => q.id <= p.id

\* a connection that has just committed a record_payment
committed_payment(s) ==
    /\ conn[s].pc = "writing"
    /\ conn[s].call.op = "record_payment"
    /\ conn'[s].pc = "closed"
    /\ last'.ret = "True"

\* C21: when calls of record_payment overlap, the commit of each keeps every
\* payment_history row committed before it and adds its own, leaves the member
\* with the payment date and amount of the call that commits (so the one that
\* commits last wins), and a reader never sees a payment row of a member
\* without the member row carrying that payment's date and amount.
C21_ConcurrentPayments ==
    /\ [](last.op = "get_all_payments" =>
            \A m \in last.rows :
               (\E p \in last.history : p.member_id = m.id) =>
                  /\ latest_payment(last.history, m).amount = m.amount
                  /\ latest_payment(last.history, m).payment_date = m.payment_date)
    /\ [][\A s \in Sessions : committed_payment(s) =>
            LET call == conn[s].call
            IN  /\ payment_history \subseteq payment_history'
                /\ payment_history' \ payment_history =
                      {[id |-> sqlite_sequence.payment_history + 1,
                        member_id |-> call.member_id, amount |-> call.amount,
                        payment_date |-> call.payment_date,
                        payment_method |-> call.payment_method]}
                /\ \A m \in members' :
                      m.id = call.member_id =>
                         /\ m.amount = call.amount
                         /\ m.payment_date = call.payment_date]_vars

\* one session has committed its payment while the other, which entered
\* record_payment for the same member before that commit, has executed both
\* of its statements on top of it and is about to commit
C21_Witness ==
    /\ last.op = "record_payment" /\ last.ret = "True" /\ last.overlapped
    /\ \E t \in Sessions \ {last.session} :
          /\ conn[t].pc = "writing" /\ conn[t].done = 2 /\ conn[t].overlapped
          /\ conn[t].call.op = "record_payment"
          /\ conn[t].call.member_id = last.call.member_id
          /\ conn[t].call.amount # last.call.amount
          /\ \E m \in members : m.id = last.call.member_id /\ m.amount = last.call.amount
          /\ \E p, q \in conn[t].work.payment_history :
                /\ p.member_id = q.member_id /\ p.id < q.id
                /\ p.amount = last.call.amount /\ q.amount = conn[t].call.amount

\* a connection that returns from add_member
returned_add_member(s) ==
    /\ conn[s].pc # "closed"
    /\ conn[s].call.op = "add_member"
    /\ conn'[s].pc = "closed"

\* C24: add_member is all-or-nothing.  A call that returns True has added
\* exactly one member row and exactly one payment_history row, which refers to
\* that member and carries its amount, its payment date and the method
\* 'Initial Payment'; a call that returns False has added neither row; and the
\* committed store never holds a member without its 'Initial Payment' row or
\* such a row without its member.
C24_AddMemberAllOrNothing ==
    /\ [](/\ \A m \in members :
               \E p \in payment_history :
                  p.member_id = m.id /\ p.payment_method = "Initial Payment"
          /\ \A p \in payment_history :
               p.payment_method = "Initial Payment" =>
                  \E m \in members : m.id = p.member_id)
    /\ [][\A s \in Sessions : returned_add_member(s) =>
            LET call == conn[s].call
            IN  IF last'.ret = "True"
                THEN \E m \in members' \ members :
                        /\ members' = members \cup {m}
                        /\ m.phone = call.phone /\ m.amount = call.amount
                        /\ m.payment_date = call.payment_date
                        /\ \E p \in payment_history' \ payment_history :
                              /\ payment_history' = payment_history \cup {p}
                              /\ p.member_id = m.id
                              /\ p.amount = call.amount
                              /\ p.payment_date = call.payment_date
                              /\ p.payment_method = "Initial Payment"
                ELSE /\ members' = members
                     /\ payment_history' = payment_history]_vars

\* a call of add_member failed after its INSERT INTO members had been
\* executed, and the store holds no row of it
C24_Witness ==
    /\ last.op = "add_member" /\ last.ret = "False" /\ last.done = 1
    /\ ~ \E m \in members : m.phone = last.call.phone
    /\ payment_history = {}

\* a call of add_member returned True and the store holds its two rows
C24_WitnessAdded ==
    /\ last.op = "add_member" /\ last.ret = "True"
    /\ \E m \in members, p \in payment_history :
          /\ m.phone = last.call.phone /\ p.member_id = m.id
          /\ p.payment_method = "Initial Payment" /\ p.amount = m.amount

\* C26: in the committed store every member has at least one payment_history
\* row, and the member's amount and payment_date are those of the row of that
\* member that was inserted last.
C26_MemberMatchesLatestPayment ==
    \A m \in members :
       /\ \E p \in payment_history : p.member_id = m.id
       /\ latest_payment(payment_history, m).amount = m.amount
       /\ latest_payment(payment_history, m).payment_date = m.payment_date

\* a payment was recorded for a member after the registration: the member has
\* two rows and carries the amount and the date of the later one
C26_Witness ==
    /\ last.op = "record_payment" /\ last.ret = "True"
    /\ \E m \in members, p, q \in payment_history :
          /\ p.member_id = m.id /\ q.member_id = m.id /\ p.id < q.id
          /\ p.payment_method = "Initial Payment"
          /\ q.amount # p.amount /\ q.payment_date # p.payment_date
          /\ m.amount = q.amount /\ m.payment_date = q.payment_date

\* the session of the last run was logged in and its login had been older
\* than the timeout when the run started
expired_before(s) ==
    /\ session_state[s].authenticated
    /\ session_state[s].login_time # NoTime
    /\ clock - session_state[s].login_time > SessionTimeout

\* a page handler ran only in a session that is authenticated and whose login
\* is at most SessionTimeout seconds old
handler_behind_login ==
    (last.op = "main" /\ last.handler # "none") =>
        /\ last.authenticated
        /\ last.login_time # NoTime
        /\ last.at - last.login_time <= SessionTimeout

\* a run in a session whose login is older than the timeout: the check returns
\* False and resets authenticated, username and login_time
expired_is_reset ==
    \A s \in Sessions :
       (expired_before(s) /\ last'.op = "main" /\ last'.session = s
           /\ last'.event # "open" /\ last'.at = clock /\ last' # last) =>
          /\ last'.check = "False"
          /\ ~session_state'[s].authenticated
          /\ session_state'[s].username = "None"
          /\ session_state'[s].login_time = NoTime
          /\ last'.shown = "login"

\* C25 (the gate): page handlers run only behind a login that is not older
\* than 14400 seconds, and a run in an older session fails the check and
\* resets authenticated, username and login_time.
C25_HandlersBehindLogin ==
    /\ []handler_behind_login
    /\ [][expired_is_reset]_vars

\* C25 as stated: the gate, and a run of a session that is not logged in
\* always ends with the login page shown.
C25_AsStated ==
    /\ []handler_behind_login
    /\ [][expired_is_reset]_vars
    /\ []((last.op = "main" /\ ~last.authenticated) => last.shown = "login")

\* a handler ran in a session whose login is exactly SessionTimeout seconds old
C25_WitnessBoundary ==
    /\ last.op = "main" /\ last.handler # "none"
    /\ last.at - last.login_time = SessionTimeout

\* a session opened with ?logout= is shown an exception, not the login page
C25_WitnessException ==
    /\ last.op = "main" /\ last.check = "IndexError" /\ last.shown = "exception"
    /\ ~last.authenticated

\* the session and the member of the run that the step is
run_of(s, id) ==
    /\ last'.op = "show_member_database"
    /\ last'.session = s
    /\ last'.event.id = id

\* C30: delete_member(m) is called only in a run in which m's confirm button
\* is clicked, in a session whose confirm_delete flag for m was set before the
\* run, and the flag is set only by a click on m's delete button; a click on
\* Cancel calls nothing, changes no row and clears the flag; a delete that
\* succeeds clears the flag; a click on a delete button calls nothing and
\* changes no row; and no member row is removed by any other step.
C30_DeleteNeedsConfirmation ==
    [][/\ \A s \in Sessions, id \in 1..MaxMemberId + 1 :
            run_of(s, id) =>
               /\ last'.called = "delete_member" =>
                     /\ last'.clicked = "confirm_yes"
                     /\ id \in session_state[s].confirm_delete
               /\ (id \in session_state'[s].confirm_delete
                      /\ id \notin session_state[s].confirm_delete) =>
                     last'.clicked = "delete_btn"
               /\ last'.clicked = "confirm_no" =>
                     /\ last'.called = "none"
                     /\ store' = store
                     /\ id \notin session_state'[s].confirm_delete
               /\ (last'.called = "delete_member" /\ last'.ret = "True") =>
                     id \notin session_state'[s].confirm_delete
               /\ last'.clicked = "delete_btn" =>
                     /\ last'.called = "none"
                     /\ store' = store
       /\ (\E m \in members : \A n \in members' : n.id # m.id) =>
            /\ last'.op = "show_member_database"
            /\ last'.called = "delete_member"
            /\ last'.clicked = "confirm_yes"]_vars

\* a member was deleted by a click on its confirm button, in a session that
\* holds no flag for it any more, while another member is still listed
C30_Witness ==
    /\ last.op = "show_member_database" /\ last.clicked = "confirm_yes"
    /\ last.called = "delete_member" /\ last.ret = "True"
    /\ last.event.id \notin session_state[last.session].confirm_delete
    /\ ~ \E m \in members : m.id = last.event.id
    /\ members # {}

\* a click on Cancel closed the dialog and the member is still listed
C30_WitnessCancel ==
    /\ last.op = "show_member_database" /\ last.clicked = "confirm_no"
    /\ last.event.id \notin session_state[last.session].confirm_delete
    /\ \E m \in members : m.id = last.event.id
    /\ [button |-> "confirm_yes", id |-> last.event.id]
          \notin screen[last.session].widgets

\* a delete failed: the dialog stays open and the flag stays set
C30_WitnessFailed ==
    /\ last.op = "show_member_database" /\ last.called = "delete_member"
    /\ last.ret = "False"
    /\ last.event.id \in session_state[last.session].confirm_delete
    /\ [button |-> "confirm_yes", id |-> last.event.id] \in screen[last.session].widgets

\* the days the tier adds to a payment date
tier_offset(m) ==
    calculate_next_due_date(m.payment_date, m.membership_type) - strptime(m.payment_date)

\* C29: a Monthly member with reminder_days 30 whose payment date is not in
\* the future has an entry in every result of get_pending_reminders; a
\* payment dated today leaves such a member with a payment_reminder entry of
\* 30 days remaining, and leaves a member whose reminder_days is smaller than
\* the offset of its tier without an entry.
C29_MonthlyAlwaysPending ==
    /\ [](\A m \in members :
             (m.membership_type = "Monthly Subscriber" /\ m.reminder_days = 30
                /\ strptime(m.payment_date) <= today) =>
                /\ pending_type(members, today, m.id) # "none"
                /\ (last.op = "get_pending_reminders" /\ last.at = today) =>
                      \E i \in DOMAIN last.pending_reminders :
                         last.pending_reminders[i].member_id = m.id)
    /\ [][(last'.op = "record_payment" /\ last'.ret = "True" /\ last'.at = today') =>
            \A m \in members' :
               m.id = last'.member_id =>
                  /\ m.payment_date = ord2ymd(today')
                  /\ (m.membership_type = "Monthly Subscriber" /\ m.reminder_days = 30) =>
                        /\ pending_type(members', today', m.id) = "payment_reminder"
                        /\ \E e \in pending_of(members', today') :
                              e.member_id = m.id /\ e.days_remaining = 30
                  /\ m.reminder_days < tier_offset(m) =>
                        pending_type(members', today', m.id) = "none"]_vars

\* an overdue Monthly member with reminder_days 30 has paid today and is read
\* as due soon on the same day
C29_Witness ==
    /\ last.op = "get_pending_reminders" /\ last.at = today
    /\ \E m \in members, p \in payment_history :
          /\ m.membership_type = "Monthly Subscriber" /\ m.reminder_days = 30
          /\ p.member_id = m.id /\ p.payment_method = "Initial Payment"
          /\ strptime(p.payment_date) + 30 < today
          /\ m.payment_date = ord2ymd(today)
          /\ \E i \in DOMAIN last.pending_reminders :
                /\ last.pending_reminders[i].member_id = m.id
                /\ last.pending_reminders[i].reminder_type = "payment_reminder"
                /\ last.pending_reminders[i].days_remaining = 30

\* a Monthly member with reminder_days 15 was pending and has no entry after
\* the payment dated today
C29_WitnessRemoved ==
    /\ last.op = "record_payment" /\ last.ret = "True" /\ last.at = today
    /\ last.was # "none"
    /\ \E m \in members :
          /\ m.id = last.member_id /\ m.reminder_days = 15
          /\ m.membership_type = "Monthly Subscriber"
          /\ pending_type(members, today, m.id) = "none"

\* a Monthly member with reminder_days 30 that paid 31 days ago is overdue
C29_WitnessCycle ==
    /\ last.op = "get_pending_reminders" /\ last.at = today
    /\ \E m \in members :
          /\ m.membership_type = "Monthly Subscriber" /\ m.reminder_days = 30
          /\ strptime(m.payment_date) > CycleStart
          /\ \E i \in DOMAIN last.pending_reminders :
                /\ last.pending_reminders[i].member_id = m.id
                /\ last.pending_reminders[i].reminder_type = "overdue_reminder"

====
